---------------------------- MODULE Spec2Model ----------------------------
(***************************************************************************)
(* State-machine model of the a3cargo container-loading engine             *)
(* (ContainerVizApp in src/src/definitions.ts and the placement helpers    *)
(* in src/src/utils.ts).                                                   *)
(*                                                                         *)
(* Numbers.  The program computes in inches with JavaScript doubles.  The  *)
(* model is exact fixed-point arithmetic in hundredths of an inch: 1 is    *)
(* 0.01", 50 is 0.5", 100 is 1".  Every tolerance of the source (0.01,     *)
(* 0.1, 0.5, 1, 40%) is an integer in that unit, and an area is in units   *)
(* of 0.0001 square inch.                                                  *)
(***************************************************************************)
EXTENDS Integers, Sequences, FiniteSets, TLC

VARIABLES
    items,           \* this.items: the ordered collection of CargoItem records
    itemMeshes,      \* keys of this.itemMeshes
    labelIds,        \* keys of the label manager's labels
    selectedItemId,  \* this.selectedItemId (Null when nothing is selected)
    containerSpec,   \* this.containerSpec
    snapEnabled,     \* this.snapEnabled
    gridSize,        \* this.gridSize
    colorMode,       \* this.colorMode
    colorCounter,    \* colorCounter of getNextColor
    idCounter,       \* number of identifiers generateId has handed out
    isDragging,      \* this.isDragging
    dragItem,        \* this.dragItem, as the id of the item it refers to
    dragOrphan,      \* the object this.dragItem refers to once it has been
                     \* deleted from this.items: <<item>>, else <<>>
    dragStartPos,    \* this.dragStartPos
    dragPlane,       \* this.dragPlane is set
    ghostMesh,       \* this.ghostMesh is set
    gesture,         \* history: the item and position at the last mouse-down
                     \* and the events counted since
    last             \* history: the last completed call, its inputs, the
                     \* items before it and what it returned

\* the state of a drag gesture
dragVars == <<isDragging, dragItem, dragOrphan, dragStartPos, dragPlane, ghostMesh,
              gesture>>

vars == <<items, itemMeshes, labelIds, selectedItemId, containerSpec,
          snapEnabled, gridSize, colorMode, colorCounter, idCounter, dragVars, last>>

----------------------------------------------------------------------------
(* Bounds of the model *)

\* at most this many items are in the container at once
MaxItems == 2
\* at most this many items are ever created (caps idCounter / colorCounter)
MaxCreated == 3
\* at most this many calls are made in one run
MaxSteps == 5
\* at most this many other items in an argument list of a probed function
MaxOthers == 2
\* largest magnitude of a value handed to snapToGrid, in hundredths
MaxValue == 2500
\* most items in a list handed to the weight and load plan functions
MaxPlan == 3

----------------------------------------------------------------------------
(* Program constants *)

\* null of selectedItemId / stackedOn; identifiers start at 1
Null == 0

\* const eps = 0.01 in checkOverlap
Eps == 1
\* the 0.5" boundary tolerance of validatePlacement, also the ceiling
\* tolerance and the minimum horizontal overlap of findStackingY
HalfInch == 50
\* item.posY <= 0.1 in isSupported
FloorTol == 10
\* Math.abs(top - posY) < 1 in isSupported
BelowTol == 100
\* supportedArea >= baseArea * 0.4, as the exact ratio SupportNum/SupportDen
SupportNum == 4
SupportDen == 10

GRID_SIZES == {100, 200, 300, 400, 600, 800, 1200, 2400}
DEFAULT_GRID_SIZE == 600

ITEM_COLORS == <<"#5b8af5", "#34d399", "#fbbf24", "#f87171", "#a78bfa",
                 "#f472b6", "#22c5d6", "#fb923c", "#818cf8", "#2dd4bf",
                 "#fb7185", "#a3e635", "#c084fc", "#22d3ee", "#fdba74">>

ItemCategory == {"general", "fragile", "heavy", "hazardous", "perishable"}

CATEGORY_COLORS == [c \in ItemCategory |->
    CASE c = "general" -> "#5b8af5"
      [] c = "fragile" -> "#f87171"
      [] c = "heavy" -> "#fbbf24"
      [] c = "hazardous" -> "#fb923c"
      [] c = "perishable" -> "#34d399"]

----------------------------------------------------------------------------
(* Arithmetic helpers *)

Max(a, b) == IF a >= b THEN a ELSE b
Min(a, b) == IF a <= b THEN a ELSE b
Abs(a) == IF a >= 0 THEN a ELSE -a

RECURSIVE Reverse(_)
Reverse(s) == IF s = <<>> THEN <<>> ELSE Append(Reverse(Tail(s)), Head(s))

\* Math.round(value / gridSize) * gridSize; Math.round is floor(x + 1/2)
snapToGrid_NextCell(value, grid) == ((value \div grid) + 1) * grid

snapToGrid(value, grid) == ((2 * value + grid) \div (2 * grid)) * grid

\* getWeightColor (weight in pounds)
getWeightColor(weight) ==
    IF weight < 500 THEN "#34d399"
    ELSE IF weight < 2000 THEN "#5b8af5"
    ELSE IF weight < 5000 THEN "#fbbf24"
    ELSE "#f87171"

----------------------------------------------------------------------------
(* Collision and support model: src/src/utils.ts *)

checkOverlap_NoEps(a, b) ==
    /\ a.posX < b.posX + b.lengthIn + Eps
    /\ a.posX + a.lengthIn > b.posX - Eps
    /\ a.posY < b.posY + b.heightIn + Eps
    /\ a.posY + a.heightIn > b.posY - Eps
    /\ a.posZ < b.posZ + b.widthIn + Eps
    /\ a.posZ + a.widthIn > b.posZ - Eps

checkOverlap(a, b) ==
    /\ a.posX < b.posX + b.lengthIn - Eps
    /\ a.posX + a.lengthIn > b.posX + Eps
    /\ a.posY < b.posY + b.heightIn - Eps
    /\ a.posY + a.heightIn > b.posY + Eps
    /\ a.posZ < b.posZ + b.widthIn - Eps
    /\ a.posZ + a.widthIn > b.posZ + Eps

\* the loop of isSupported from index i on, supportedArea so far in acc
RECURSIVE SupportedArea(_, _, _, _)
SupportedArea(item, allItems, i, acc) ==
    IF i > Len(allItems) THEN acc
    ELSE LET other == allItems[i]
             overlapX == Max(0, Min(item.posX + item.lengthIn, other.posX + other.lengthIn)
                                - Max(item.posX, other.posX))
             overlapZ == Max(0, Min(item.posZ + item.widthIn, other.posZ + other.widthIn)
                                - Max(item.posZ, other.posZ))
         IN  IF other.id = item.id THEN SupportedArea(item, allItems, i + 1, acc)
             ELSE IF Abs(other.posY + other.heightIn - item.posY) < BelowTol
                  THEN SupportedArea(item, allItems, i + 1, acc + overlapX * overlapZ)
                  ELSE SupportedArea(item, allItems, i + 1, acc)

isSupported_StrictFloor(item, allItems) ==
    IF item.posY <= 0 THEN TRUE
    ELSE SupportedArea(item, allItems, 1, 0) * SupportDen
            >= item.lengthIn * item.widthIn * SupportNum

isSupported_StrictThreshold(item, allItems) ==
    IF item.posY <= FloorTol THEN TRUE
    ELSE SupportedArea(item, allItems, 1, 0) * SupportDen
            > item.lengthIn * item.widthIn * SupportNum

isSupported(item, allItems) ==
    IF item.posY <= FloorTol THEN TRUE
    ELSE SupportedArea(item, allItems, 1, 0) * SupportDen
            >= item.lengthIn * item.widthIn * SupportNum

----------------------------------------------------------------------------
(* Placement validator: src/src/utils.ts *)

\* the three boundary checks, in the order of the source
BoundaryErrors(item, container) ==
    (IF item.posX < 0 \/ item.posX + item.lengthIn > container.lengthIn + HalfInch
     THEN <<[kind |-> "length", label |-> item.label, other |-> ""]>> ELSE <<>>)
    \o
    (IF item.posZ < 0 \/ item.posZ + item.widthIn > container.widthIn + HalfInch
     THEN <<[kind |-> "width", label |-> item.label, other |-> ""]>> ELSE <<>>)
    \o
    (IF item.posY < 0 \/ item.posY + item.heightIn > container.heightIn + HalfInch
     THEN <<[kind |-> "height", label |-> item.label, other |-> ""]>> ELSE <<>>)

\* the overlap loop from index i on, errors so far in acc
RECURSIVE OverlapErrors(_, _, _, _)
OverlapErrors(item, allItems, i, acc) ==
    IF i > Len(allItems) THEN acc
    ELSE LET other == allItems[i]
         IN  IF other.id = item.id THEN OverlapErrors(item, allItems, i + 1, acc)
             ELSE IF checkOverlap(item, other)
                  THEN OverlapErrors(item, allItems, i + 1,
                         Append(acc, [kind |-> "overlap", label |-> item.label,
                                      other |-> other.label]))
                  ELSE OverlapErrors(item, allItems, i + 1, acc)

validatePlacement_ShortCircuit(item, allItems, container) ==
    LET b == BoundaryErrors(item, container)
        errs == IF b # <<>> THEN b ELSE OverlapErrors(item, allItems, 1, b)
        warns == IF item.posY > 0 /\ ~isSupported(item, allItems)
                 THEN <<[kind |-> "floating", label |-> item.label]>> ELSE <<>>
    IN  [valid |-> errs = <<>>, warnings |-> warns, errors |-> errs]

validatePlacement(item, allItems, container) ==
    LET errs == OverlapErrors(item, allItems, 1, BoundaryErrors(item, container))
        warns == IF item.posY > 0 /\ ~isSupported(item, allItems)
                 THEN <<[kind |-> "floating", label |-> item.label]>> ELSE <<>>
    IN  [valid |-> errs = <<>>, warnings |-> warns, errors |-> errs]

----------------------------------------------------------------------------
(* Stacking solver: src/src/utils.ts *)

\* the loop of findStackingY from index i on; stackedOn is the id of the item
RECURSIVE StackScan(_, _, _, _, _, _)
StackScan(item, allItems, container, i, bestY, stackedOn) ==
    IF i > Len(allItems) THEN [y |-> bestY, stackedOn |-> stackedOn]
    ELSE LET other == allItems[i]
             overlapX == Min(item.posX + item.lengthIn, other.posX + other.lengthIn)
                         - Max(item.posX, other.posX)
             overlapZ == Min(item.posZ + item.widthIn, other.posZ + other.widthIn)
                         - Max(item.posZ, other.posZ)
             topY == other.posY + other.heightIn
         IN  IF other.id = item.id
             THEN StackScan(item, allItems, container, i + 1, bestY, stackedOn)
             ELSE IF /\ overlapX > HalfInch /\ overlapZ > HalfInch
                     /\ topY > bestY
                     /\ topY + item.heightIn <= container.heightIn + HalfInch
                  THEN StackScan(item, allItems, container, i + 1, topY, other.id)
                  ELSE StackScan(item, allItems, container, i + 1, bestY, stackedOn)

findStackingY_FirstFit(item, allItems, container) ==
    LET hit == {i \in DOMAIN allItems :
                  /\ allItems[i].id # item.id
                  /\ Min(item.posX + item.lengthIn, allItems[i].posX + allItems[i].lengthIn)
                       - Max(item.posX, allItems[i].posX) > HalfInch
                  /\ Min(item.posZ + item.widthIn, allItems[i].posZ + allItems[i].widthIn)
                       - Max(item.posZ, allItems[i].posZ) > HalfInch
                  /\ allItems[i].posY + allItems[i].heightIn + item.heightIn
                       <= container.heightIn + HalfInch}
    IN  IF hit = {} THEN [y |-> 0, stackedOn |-> Null]
        ELSE LET f == CHOOSE i \in hit : \A j \in hit : i <= j
             IN  [y |-> allItems[f].posY + allItems[f].heightIn,
                  stackedOn |-> allItems[f].id]

findStackingY(item, allItems, container) ==
    StackScan(item, allItems, container, 1, 0, Null)

\* Array.from(set).sort((a, b) => a - b): the members of s in ascending order
RECURSIVE SortedSeq(_)
SortedSeq(s) ==
    IF s = {} THEN <<>>
    ELSE LET m == CHOOSE x \in s : \A y \in s : x <= y
         IN  <<m>> \o SortedSeq(s \ {m})

\* levels taken only from the items the footprint overlaps
findAllStackLevels_OverlapOnly(item, allItems, container) ==
    SortedSeq({0} \cup
        {allItems[i].posY + allItems[i].heightIn : i \in
            {j \in DOMAIN allItems :
                /\ allItems[j].id # item.id
                /\ item.posX < allItems[j].posX + allItems[j].lengthIn
                /\ allItems[j].posX < item.posX + item.lengthIn
                /\ item.posZ < allItems[j].posZ + allItems[j].widthIn
                /\ allItems[j].posZ < item.posZ + item.widthIn
                /\ allItems[j].posY + allItems[j].heightIn + item.heightIn
                     <= container.heightIn + HalfInch}})

findAllStackLevels(item, allItems, container) ==
    SortedSeq({0} \cup
        {allItems[i].posY + allItems[i].heightIn : i \in
            {j \in DOMAIN allItems :
                /\ allItems[j].id # item.id
                /\ allItems[j].posY + allItems[j].heightIn + item.heightIn
                     <= container.heightIn + HalfInch}})

----------------------------------------------------------------------------
(* Load metrics: src/src/utils.ts.  A percentage (part / of) * 100 is kept *)
(* as the exact pair of its numerator and denominator.                      *)

Percent(part, of) == [part |-> part, of |-> of]

\* the literal 50 returned for an empty load
Fifty == Percent(1, 2)

\* items.reduce((sum, item) => sum + item.weightLbs, 0)
RECURSIVE calculateTotalWeight(_)
calculateTotalWeight(its) ==
    IF its = <<>> THEN 0
    ELSE calculateTotalWeight(SubSeq(its, 1, Len(its) - 1)) + its[Len(its)].weightLbs

\* the reduce of calculateUtilization: the summed item volume
RECURSIVE ItemsVolume(_)
ItemsVolume(its) ==
    IF its = <<>> THEN 0
    ELSE ItemsVolume(SubSeq(its, 1, Len(its) - 1))
            + its[Len(its)].lengthIn * its[Len(its)].widthIn * its[Len(its)].heightIn

calculateUtilization(its, container) ==
    Percent(ItemsVolume(its), container.lengthIn * container.widthIn * container.heightIn)

\* the loop of getWeightDistribution from index i on; centerX < midLength is
\* compared as 2 * posX + lengthIn < container.lengthIn
RECURSIVE WeightSums(_, _, _, _)
WeightSums(its, container, i, acc) ==
    IF i > Len(its) THEN acc
    ELSE LET item == its[i]
             isFront == 2 * item.posX + item.lengthIn < container.lengthIn
             isLeft == 2 * item.posZ + item.widthIn < container.widthIn
         IN  WeightSums(its, container, i + 1,
                 [front |-> acc.front + (IF isFront THEN item.weightLbs ELSE 0),
                  back |-> acc.back + (IF isFront THEN 0 ELSE item.weightLbs),
                  left |-> acc.left + (IF isLeft THEN item.weightLbs ELSE 0),
                  right |-> acc.right + (IF isLeft THEN 0 ELSE item.weightLbs),
                  totalW |-> acc.totalW + item.weightLbs])

RECURSIVE WeightSums_Inclusive(_, _, _, _)
WeightSums_Inclusive(its, container, i, acc) ==
    IF i > Len(its) THEN acc
    ELSE LET item == its[i]
             isFront == 2 * item.posX + item.lengthIn <= container.lengthIn
             isLeft == 2 * item.posZ + item.widthIn <= container.widthIn
         IN  WeightSums_Inclusive(its, container, i + 1,
                 [front |-> acc.front + (IF isFront THEN item.weightLbs ELSE 0),
                  back |-> acc.back + (IF isFront THEN 0 ELSE item.weightLbs),
                  left |-> acc.left + (IF isLeft THEN item.weightLbs ELSE 0),
                  right |-> acc.right + (IF isLeft THEN 0 ELSE item.weightLbs),
                  totalW |-> acc.totalW + item.weightLbs])

\* the result record of getWeightDistribution from the sums of its loop
Distribution(sums) ==
    IF sums.totalW = 0
    THEN [front |-> Fifty, back |-> Fifty, left |-> Fifty, right |-> Fifty]
    ELSE [front |-> Percent(sums.front, sums.totalW),
          back |-> Percent(sums.back, sums.totalW),
          left |-> Percent(sums.left, sums.totalW),
          right |-> Percent(sums.right, sums.totalW)]

NoWeight == [front |-> 0, back |-> 0, left |-> 0, right |-> 0, totalW |-> 0]

getWeightDistribution_Inclusive(its, container) ==
    Distribution(WeightSums_Inclusive(its, container, 1, NoWeight))

getWeightDistribution(its, container) ==
    Distribution(WeightSums(its, container, 1, NoWeight))

----------------------------------------------------------------------------
(* Load plan: src/unnamed/part_004 *)

\* tolerances of the sort comparator: 1 inch on posY and posX, 10 lbs
PlanYTol == 100
PlanWeightTol == 10
PlanXTol == 100
\* buildInstruction: an item below 1 inch is on the floor; a top surface
\* within 2 inches of the item's bottom is right below it
PlanFloorY == 100
PlanTopTol == 200

\* the comparator handed to Array.prototype.sort
PlanCompare(a, b) ==
    IF Abs(a.posY - b.posY) > PlanYTol THEN a.posY - b.posY
    ELSE IF Abs(b.weightLbs - a.weightLbs) > PlanWeightTol
         THEN b.weightLbs - a.weightLbs
    ELSE IF Abs(a.posX - b.posX) > PlanXTol THEN a.posX - b.posX
    ELSE a.posZ - b.posZ

\* The comparator is not a consistent comparison function (its tolerances
\* make "equal" non-transitive), so ECMAScript leaves the sort order to the
\* engine.  Two engines are modelled: the insertion sort that engines use
\* for short arrays (V8 before 7.0, SpiderMonkey) and V8's TimSort, which
\* for fewer than 64 elements is one run detection followed by a binary
\* insertion sort.
SortEngines == {"insertion", "timsort"}

\* insertion sort: the element moves left past every neighbour that
\* compares greater
RECURSIVE InsertionPoint(_, _, _)
InsertionPoint(sorted, j, element) ==
    IF j = 0 THEN 0
    ELSE IF PlanCompare(sorted[j], element) > 0
         THEN InsertionPoint(sorted, j - 1, element)
    ELSE j

RECURSIVE InsertionSort(_, _, _)
InsertionSort(its, i, sorted) ==
    IF i > Len(its) THEN sorted
    ELSE InsertionSort(its, i + 1,
            SubSeq(sorted, 1, InsertionPoint(sorted, Len(sorted), its[i]))
            \o <<its[i]>>
            \o SubSeq(sorted, InsertionPoint(sorted, Len(sorted), its[i]) + 1,
                      Len(sorted)))

\* TimSort, CountAndMakeRun: the last index of the run that starts the array
RECURSIVE RunEnd(_, _, _)
RunEnd(its, isDescending, idx) ==
    IF idx > Len(its) THEN idx - 1
    ELSE IF isDescending /\ PlanCompare(its[idx], its[idx - 1]) >= 0 THEN idx - 1
    ELSE IF ~isDescending /\ PlanCompare(its[idx], its[idx - 1]) < 0 THEN idx - 1
    ELSE RunEnd(its, isDescending, idx + 1)

RunIsDescending(its) == PlanCompare(its[2], its[1]) < 0

RunLength(its) == RunEnd(its, RunIsDescending(its), 3)

\* a descending run is reversed in place
MakeRun(its, runLength) ==
    IF RunIsDescending(its)
    THEN Reverse(SubSeq(its, 1, runLength)) \o SubSeq(its, runLength + 1, Len(its))
    ELSE its

\* TimSort, BinaryInsertionSort: where the pivot goes in its[left+1 .. right]
RECURSIVE BinarySearch(_, _, _, _)
BinarySearch(its, pivot, left, right) ==
    IF left >= right THEN left
    ELSE IF PlanCompare(pivot, its[left + ((right - left) \div 2) + 1]) < 0
         THEN BinarySearch(its, pivot, left, left + ((right - left) \div 2))
    ELSE BinarySearch(its, pivot, left + ((right - left) \div 2) + 1, right)

MovePivot(its, start, left) ==
    SubSeq(its, 1, left) \o <<its[start + 1]>> \o SubSeq(its, left + 1, start)
    \o SubSeq(its, start + 2, Len(its))

RECURSIVE BinaryInsertionSort(_, _)
BinaryInsertionSort(its, start) ==
    IF start >= Len(its) THEN its
    ELSE BinaryInsertionSort(
            MovePivot(its, start, BinarySearch(its, its[start + 1], 0, start)),
            start + 1)

TimSort(its) ==
    IF Len(its) < 2 THEN its
    ELSE BinaryInsertionSort(MakeRun(its, RunLength(its)), RunLength(its))

\* [...items].sort(comparator) under the given engine
PlanSort(its, engine) ==
    IF engine = "timsort" THEN TimSort(its) ELSE InsertionSort(its, 1, <<>>)

\* getPositionDescription: the quarter of the length and of the width that
\* holds the item's centre
Quarter(pos, size, whole) ==
    IF 4 * pos + 2 * size < whole THEN 1
    ELSE IF 2 * pos + size < whole THEN 2
    ELSE IF 4 * pos + 2 * size < 3 * whole THEN 3
    ELSE 4

getPositionDescription(item, container) ==
    [fb |-> Quarter(item.posX, item.lengthIn, container.lengthIn),
     lr |-> Quarter(item.posZ, item.widthIn, container.widthIn)]

\* getRotationLabel: empty for an unrotated item with its original dimensions
getRotationLabel(item) ==
    IF /\ item.lengthIn = item.origLengthIn
       /\ item.widthIn = item.origWidthIn
       /\ item.heightIn = item.origHeightIn
       /\ item.rotationY = 0
    THEN [shown |-> FALSE, deg |-> 0]
    ELSE [shown |-> TRUE, deg |-> item.rotationY * 90]

getOrientationDesc(item) ==
    [lengthIn |-> item.lengthIn, widthIn |-> item.widthIn,
     heightIn |-> item.heightIn, rotated |-> getRotationLabel(item)]

\* the filter of buildInstruction: other's top is within 2 inches of the
\* item's bottom and the footprints overlap
IsBelow(other, item) ==
    /\ Abs(other.posY + other.heightIn - item.posY) < PlanTopTol
    /\ item.posX < other.posX + other.lengthIn
    /\ item.posX + item.lengthIn > other.posX
    /\ item.posZ < other.posZ + other.widthIn
    /\ item.posZ + item.widthIn > other.posZ

\* allSorted.slice(0, index).filter(...).map(b => b.label)
RECURSIVE BelowLabels(_, _, _)
BelowLabels(allSorted, index, item) ==
    IF index = 0 THEN <<>>
    ELSE BelowLabels(allSorted, index - 1, item)
         \o (IF IsBelow(allSorted[index], item) THEN <<allSorted[index].label>>
             ELSE <<>>)

\* the instruction text, kept as its parts; index counts from 1
buildInstruction(item, allSorted, index, container) ==
    [kind |-> IF item.posY < PlanFloorY THEN "floor"
              ELSE IF BelowLabels(allSorted, index - 1, item) # <<>> THEN "stack"
              ELSE "height",
     label |-> item.label,
     below |-> IF item.posY < PlanFloorY THEN <<>>
               ELSE BelowLabels(allSorted, index - 1, item),
     position |-> getPositionDescription(item, container),
     orientation |-> getOrientationDesc(item)]

\* the filter of buildTips: a fragile item sequenced later whose bottom is
\* within 2 inches of the item's top
FragileAbove(allSorted, index, item) ==
    \E k \in (index + 1)..Len(allSorted) :
        /\ allSorted[k].category = "fragile"
        /\ Abs(item.posY + item.heightIn - allSorted[k].posY) < PlanTopTol

\* volRatio > 0.08, as 25 * volume > 2 * containerVolume
IsLarge(volume, containerVolume) ==
    volume > 2 * (containerVolume \div 25) + (2 * (containerVolume % 25)) \div 25

Tip(cond, name) == IF cond THEN <<name>> ELSE <<>>

\* the tips of a step, by name and in the order they are pushed
buildTips(item, allSorted, index, container, cumulativeWeight) ==
    Tip(item.category = "fragile", "fragile")
    \o Tip(item.category = "hazardous", "hazardous")
    \o Tip(item.category = "perishable", "perishable")
    \o Tip(item.category = "heavy", "heavy")
    \o Tip(10 * cumulativeWeight > 9 * container.maxWeightLbs, "weightLimit")
    \o Tip(item.posY > 0, "stable")
    \o Tip(IsLarge(item.lengthIn * item.widthIn * item.heightIn,
                   container.lengthIn * container.widthIn * container.heightIn),
           "large")
    \o Tip(FragileAbove(allSorted, index, item) /\ item.category # "fragile",
           "fragileAbove")

\* a step that reports its own item's weight instead of the running total
LoadStep_OwnWeight(sorted, i, container, cumulativeWeight, cumulativeVolume) ==
    [stepNumber |-> i,
     item |-> sorted[i],
     instruction |-> buildInstruction(sorted[i], sorted, i, container),
     tips |-> buildTips(sorted[i], sorted, i, container, cumulativeWeight),
     cumulativeWeight |-> sorted[i].weightLbs,
     cumulativeUtilization |->
        Percent(cumulativeVolume,
                container.lengthIn * container.widthIn * container.heightIn)]

LoadStep(sorted, i, container, cumulativeWeight, cumulativeVolume) ==
    [stepNumber |-> i,
     item |-> sorted[i],
     instruction |-> buildInstruction(sorted[i], sorted, i, container),
     tips |-> buildTips(sorted[i], sorted, i, container, cumulativeWeight),
     cumulativeWeight |-> cumulativeWeight,
     cumulativeUtilization |->
        Percent(cumulativeVolume,
                container.lengthIn * container.widthIn * container.heightIn)]

\* the loop over the sorted copy; the totals carried are those before step i
RECURSIVE PlanSteps(_, _, _, _, _)
PlanSteps(sorted, i, container, weight, volume) ==
    IF i > Len(sorted) THEN <<>>
    ELSE <<LoadStep(sorted, i, container, weight + sorted[i].weightLbs,
                    volume + sorted[i].lengthIn * sorted[i].widthIn
                                 * sorted[i].heightIn)>>
         \o PlanSteps(sorted, i + 1, container, weight + sorted[i].weightLbs,
                      volume + sorted[i].lengthIn * sorted[i].widthIn
                                   * sorted[i].heightIn)

\* items.sort(...) would sort the caller's array itself
SortCopy_InPlace(its, engine) ==
    [sorted |-> PlanSort(its, engine), items |-> PlanSort(its, engine)]

\* const sorted = [...items].sort(...): the copy is sorted, and the caller's
\* array is left as it was
SortCopy(its, engine) == [sorted |-> PlanSort(its, engine), items |-> its]

\* the returned steps, together with the caller's item array after the call
generateLoadPlan(its, container, engine) ==
    [steps |-> PlanSteps(SortCopy(its, engine).sorted, 1, container, 0, 0),
     items |-> SortCopy(its, engine).items]

----------------------------------------------------------------------------
(* Container catalog and item inputs *)

\* CONTAINER_SPECS, with every internal dimension scaled down so that the
\* auto-placement scan stays small; each keeps a fractional part as the
\* real catalog does (232 x 92.5 x 94.5 and so on).  lengthIn 14", widthIn
\* 6.5", heightIn 12.5" for the initial '20ft' entry.
CONTAINER_SPECS == [n \in {"20ft", "40ft", "40hc"} |->
    CASE n = "20ft" -> [name |-> n, lengthIn |-> 1250, widthIn |-> 650, heightIn |-> 1250,
                        maxWeightLbs |-> 47900]
      [] n = "40ft" -> [name |-> n, lengthIn |-> 1850, widthIn |-> 650, heightIn |-> 1250,
                        maxWeightLbs |-> 58860]
      [] n = "40hc" -> [name |-> n, lengthIn |-> 1850, widthIn |-> 650, heightIn |-> 1400,
                        maxWeightLbs |-> 58860]]

\* what the add form and the library hand to addItem
AddInputs ==
    { [label |-> "box", lengthIn |-> 600, widthIn |-> 600, heightIn |-> 600,
       weightLbs |-> 100, category |-> "general"],
      [label |-> "beam", lengthIn |-> 1300, widthIn |-> 400, heightIn |-> 400,
       weightLbs |-> 100, category |-> "general"],
      [label |-> "mast", lengthIn |-> 400, widthIn |-> 400, heightIn |-> 1300,
       weightLbs |-> 100, category |-> "general"] }

\* what the edit dialog hands to editItem: a partial record of the fields
\* that differ from the item's current ones
EditChanges ==
    { [label |-> "crate", weightLbs |-> 700, category |-> "heavy", color |-> "#123456",
       lengthIn |-> 1300],
      [heightIn |-> 1300],
      [lengthIn |-> 400],
      [lengthIn |-> 800] }

\* the grid sizes the grid-size buttons are pressed for in this model
GridChoices == {600, 400}

Has(changes, f) == f \in DOMAIN changes

----------------------------------------------------------------------------
(* ContainerVizApp helpers: src/src/definitions.ts *)

Ids(its) == {its[i].id : i \in DOMAIN its}

\* this.items.find(i => i.id === id), as an index
IndexOf(its, id) == CHOOSE i \in DOMAIN its : its[i].id = id

\* this.items.filter(i => i.id !== id)
RECURSIVE Without(_, _)
Without(its, id) ==
    IF its = <<>> THEN <<>>
    ELSE IF Head(its).id = id THEN Without(Tail(its), id)
         ELSE <<Head(its)>> \o Without(Tail(its), id)

\* this.items.splice(idx, 0, item)
InsertAt(its, idx, item) ==
    SubSeq(its, 1, idx - 1) \o <<item>> \o SubSeq(its, idx, Len(its))

SnapPos(item, grid) ==
    [item EXCEPT !.posX = snapToGrid(item.posX, grid),
                 !.posY = snapToGrid(item.posY, grid),
                 !.posZ = snapToGrid(item.posZ, grid)]

\* the three nested for-loops of autoPlace, innermost first: <<item>> at
\* the first position that validates with no warning, <<>> if the loop ends
RECURSIVE ScanZ(_, _, _, _, _, _, _)
ScanZ(item, its, container, gridStep, y, x, z) ==
    IF z > container.widthIn - item.widthIn THEN <<>>
    ELSE LET cand == [item EXCEPT !.posX = x, !.posY = y, !.posZ = z]
             result == validatePlacement(cand, its, container)
         IN  IF result.valid /\ result.warnings = <<>> THEN <<cand>>
             ELSE ScanZ(item, its, container, gridStep, y, x, z + gridStep)

RECURSIVE ScanX(_, _, _, _, _, _)
ScanX(item, its, container, gridStep, y, x) ==
    IF x > container.lengthIn - item.lengthIn THEN <<>>
    ELSE LET found == ScanZ(item, its, container, gridStep, y, x, 0)
         IN  IF found # <<>> THEN found
             ELSE ScanX(item, its, container, gridStep, y, x + gridStep)

RECURSIVE ScanY(_, _, _, _, _)
ScanY(item, its, container, gridStep, y) ==
    IF y > container.heightIn - item.heightIn THEN <<>>
    ELSE LET found == ScanX(item, its, container, gridStep, y, 0)
         IN  IF found # <<>> THEN found
             ELSE ScanY(item, its, container, gridStep, y + gridStep)

\* a scan that prefers the lowest x, then the lowest y, then the lowest z
AutoScan_LengthFirst(item, its, container, gridStep) ==
    LET ys == {k * gridStep : k \in 0..((container.heightIn - item.heightIn) \div gridStep)}
        xs == {k * gridStep : k \in 0..((container.lengthIn - item.lengthIn) \div gridStep)}
        zs == {k * gridStep : k \in 0..((container.widthIn - item.widthIn) \div gridStep)}
        At(p) == [item EXCEPT !.posX = p[1], !.posY = p[2], !.posZ = p[3]]
        clean == {p \in xs \X ys \X zs :
                    /\ validatePlacement(At(p), its, container).valid
                    /\ validatePlacement(At(p), its, container).warnings = <<>>}
        Before(p, q) == \/ p[1] < q[1]
                        \/ p[1] = q[1] /\ p[2] < q[2]
                        \/ p[1] = q[1] /\ p[2] = q[2] /\ p[3] <= q[3]
    IN  IF clean = {} THEN <<>>
        ELSE <<At(CHOOSE p \in clean : \A q \in clean : Before(p, q))>>

AutoScan(item, its, container, gridStep) == ScanY(item, its, container, gridStep, 0)

autoPlace_FallbackFloor(item, its, container, snap, grid) ==
    LET found == AutoScan(item, its, container, IF snap THEN grid ELSE 100)
    IN  IF found # <<>> THEN found[1]
        ELSE [item EXCEPT !.posX = 0, !.posY = 0, !.posZ = 0]

\* autoPlace(item) with this.items = its: the item as it is left
autoPlace(item, its, container, snap, grid) ==
    LET gridStep == IF snap THEN grid ELSE 100
        found == AutoScan(item, its, container, gridStep)
        reset == [item EXCEPT !.posX = 0, !.posY = 0, !.posZ = 0]
    IN  IF found # <<>> THEN found[1]
        ELSE [reset EXCEPT !.posY = findStackingY(reset, its, container).y]

----------------------------------------------------------------------------
(* The mutating operations of ContainerVizApp, as functions of the state   *)
(* they read: each yields the item list it leaves and what it reported.    *)

ExceedsContainer_NoHeight(data, container) ==
    \/ data.lengthIn > container.lengthIn
    \/ data.widthIn > container.widthIn

\* addItem's dimension check
ExceedsContainer(data, container) ==
    \/ data.lengthIn > container.lengthIn
    \/ data.widthIn > container.widthIn
    \/ data.heightIn > container.heightIn

\* the CargoItem literal addItem builds
NewItem(data, id, color) ==
    [id |-> id, label |-> data.label,
     lengthIn |-> data.lengthIn, widthIn |-> data.widthIn, heightIn |-> data.heightIn,
     origLengthIn |-> data.lengthIn, origWidthIn |-> data.widthIn,
     origHeightIn |-> data.heightIn,
     weightLbs |-> data.weightLbs, category |-> data.category, color |-> color,
     posX |-> 0, posY |-> 0, posZ |-> 0, visible |-> TRUE, rotationY |-> 0]

\* rotateItemY / rotateItemTipForward / rotateItemTipSide
rotateItemY_NoWrap(item) ==
    [item EXCEPT !.lengthIn = item.widthIn, !.widthIn = item.lengthIn,
                 !.rotationY = item.rotationY + 1]

rotateItemY(item) ==
    [item EXCEPT !.lengthIn = item.widthIn, !.widthIn = item.lengthIn,
                 !.rotationY = (item.rotationY + 1) % 4]
\* a forward tip that would count as a quarter turn
rotateItemTipForward_Counts(item) ==
    [item EXCEPT !.lengthIn = item.heightIn, !.heightIn = item.lengthIn,
                 !.rotationY = (item.rotationY + 1) % 4]

rotateItemTipForward(item) ==
    [item EXCEPT !.lengthIn = item.heightIn, !.heightIn = item.lengthIn]
rotateItemTipSide(item) ==
    [item EXCEPT !.widthIn = item.heightIn, !.heightIn = item.widthIn]

\* moveItem's restore of oldX, oldY, oldZ (old is the item before the call)
RevertMove(cur, old) ==
    [cur EXCEPT !.posX = old.posX, !.posY = old.posY, !.posZ = old.posZ]

RevertRotate_KeepsCounter(cur, old) ==
    [cur EXCEPT !.lengthIn = old.lengthIn, !.widthIn = old.widthIn,
                !.heightIn = old.heightIn,
                !.posX = old.posX, !.posY = old.posY, !.posZ = old.posZ]

\* rotateItem's restore of oldL, oldW, oldH, oldPosX, oldPosY, oldPosZ, oldRot
RevertRotate(cur, old) ==
    [cur EXCEPT !.lengthIn = old.lengthIn, !.widthIn = old.widthIn,
                !.heightIn = old.heightIn,
                !.posX = old.posX, !.posY = old.posY, !.posZ = old.posZ,
                !.rotationY = old.rotationY]

\* editItem's restore of the old* snapshot and of savedX, savedY, savedZ
RevertEdit(cur, old, savedX, savedY, savedZ) ==
    [cur EXCEPT
        !.label = old.label,
        !.lengthIn = old.lengthIn, !.widthIn = old.widthIn, !.heightIn = old.heightIn,
        !.weightLbs = old.weightLbs, !.category = old.category, !.color = old.color,
        !.origLengthIn = old.origLengthIn, !.origWidthIn = old.origWidthIn,
        !.origHeightIn = old.origHeightIn,
        !.posX = savedX, !.posY = savedY, !.posZ = savedZ]

\* this.items with the item at index i in its current (mutated) state
Replace(its, i, item) == [its EXCEPT ![i] = item]

\* moveItem's shift along one axis, kept at or above 0
Shift(item, axis, delta) ==
    CASE axis = "x" -> [item EXCEPT !.posX = Max(0, item.posX + delta)]
      [] axis = "y" -> [item EXCEPT !.posY = Max(0, item.posY + delta)]
      [] axis = "z" -> [item EXCEPT !.posZ = Max(0, item.posZ + delta)]

\* the end of moveItem and rotateItem: validate, revert when invalid
Settle(its, i, final, reverted, container) ==
    LET result == validatePlacement(final, Replace(its, i, final), container)
    IN  IF ~result.valid
        THEN [items |-> Replace(its, i, reverted), outcome |-> "rejected",
              result |-> result]
        ELSE [items |-> Replace(its, i, final), outcome |-> "accepted",
              result |-> result]

\* moveItem(id, axis, delta) on the list its
moveItem(its, id, axis, delta, container, snap, grid) ==
    LET i == IndexOf(its, id)
        snapped == IF snap THEN SnapPos(Shift(its[i], axis, delta), grid)
                   ELSE Shift(its[i], axis, delta)
    IN  Settle(its, i, snapped, RevertMove(snapped, its[i]), container)

\* the turn rotateItem applies for a rotation type
Turn(item, rotationType) ==
    CASE rotationType = "y" -> rotateItemY(item)
      [] rotationType = "tipForward" -> rotateItemTipForward(item)
      [] rotationType = "tipSide" -> rotateItemTipSide(item)

\* rotateItem's clamp of the position after the turn
ClampRotate(item, container) ==
    [item EXCEPT
        !.posX = Min(item.posX, Max(0, container.lengthIn - item.lengthIn)),
        !.posZ = Min(item.posZ, Max(0, container.widthIn - item.widthIn)),
        !.posY = Min(item.posY, Max(0, container.heightIn - item.heightIn))]

\* item.posY = Math.max(item.posY, stack.y), then snapped when snap is on
LiftTo(item, y, snap, grid) ==
    [item EXCEPT !.posY = IF snap THEN snapToGrid(Max(item.posY, y), grid)
                          ELSE Max(item.posY, y)]

\* the snap and stack-lift block shared by rotateItem and editItem
SnapAndLift(item, its, i, container, snap, grid) ==
    LET snapped == IF snap THEN SnapPos(item, grid) ELSE item
    IN  LiftTo(snapped, findStackingY(snapped, Replace(its, i, snapped), container).y,
               snap, grid)

\* rotateItem(id, rotationType) on the list its
rotateItem(its, id, rotationType, container, snap, grid) ==
    LET i == IndexOf(its, id)
        final == SnapAndLift(ClampRotate(Turn(its[i], rotationType), container),
                             its, i, container, snap, grid)
    IN  Settle(its, i, final, RevertRotate(final, its[i]), container)

\* the first loop of editItem's recovery: the levels in ascending order from
\* index k on, X and Z restored to the saved ones; <<item>> at the first level
\* that validates, <<>> if none does
RECURSIVE RetryLevels(_, _, _, _, _, _, _, _)
RetryLevels(item, its, i, levels, k, container, snap, grid) ==
    IF k > Len(levels) THEN <<>>
    ELSE LET cand == [item EXCEPT !.posY = IF snap THEN snapToGrid(levels[k], grid)
                                           ELSE levels[k]]
         IN  IF validatePlacement(cand, Replace(its, i, cand), container).valid
             THEN <<cand>>
             ELSE RetryLevels(item, its, i, levels, k + 1, container, snap, grid)

\* editItem's assignments of label, weight, category and color
ApplyAttrs(item, changes) ==
    [item EXCEPT
        !.label = IF Has(changes, "label") THEN changes.label ELSE @,
        !.weightLbs = IF Has(changes, "weightLbs") THEN changes.weightLbs ELSE @,
        !.category = IF Has(changes, "category") THEN changes.category ELSE @,
        !.color = IF Has(changes, "color") THEN changes.color ELSE @]

\* editItem's assignments of the dimensions, which reset the yaw counter
ApplyDims(item, changes) ==
    [item EXCEPT
        !.lengthIn = IF Has(changes, "lengthIn") THEN changes.lengthIn ELSE @,
        !.origLengthIn = IF Has(changes, "lengthIn") THEN changes.lengthIn ELSE @,
        !.widthIn = IF Has(changes, "widthIn") THEN changes.widthIn ELSE @,
        !.origWidthIn = IF Has(changes, "widthIn") THEN changes.widthIn ELSE @,
        !.heightIn = IF Has(changes, "heightIn") THEN changes.heightIn ELSE @,
        !.origHeightIn = IF Has(changes, "heightIn") THEN changes.heightIn ELSE @,
        !.rotationY = 0]

\* editItem's clamp of the position after the resize
ClampEdit(item, container) ==
    [item EXCEPT
        !.posX = Max(0, Min(item.posX, container.lengthIn - item.lengthIn)),
        !.posZ = Max(0, Min(item.posZ, container.widthIn - item.widthIn)),
        !.posY = Max(0, Min(item.posY, container.heightIn - item.heightIn))]

DimsChanged(changes) ==
    Has(changes, "lengthIn") \/ Has(changes, "widthIn") \/ Has(changes, "heightIn")

\* the item as editItem has mutated it when it first validates
EditMutate(item, its, i, changes, container, snap, grid) ==
    IF DimsChanged(changes)
    THEN SnapAndLift(ClampEdit(ApplyDims(ApplyAttrs(item, changes), changes), container),
                     its, i, container, snap, grid)
    ELSE ApplyAttrs(item, changes)

\* the colour the active colour mode gives at the end of an edit
Recolor(item, mode) ==
    IF mode = "category" THEN [item EXCEPT !.color = CATEGORY_COLORS[item.category]]
    ELSE IF mode = "weight" THEN [item EXCEPT !.color = getWeightColor(item.weightLbs)]
    ELSE item

\* the Y levels editItem retries: 0 and the top of every other item, ascending
EditLevels(otherItems) ==
    SortedSeq({0} \cup {otherItems[k].posY + otherItems[k].heightIn :
                            k \in DOMAIN otherItems})

\* the last step of editItem's recovery: autoPlace with the item spliced out,
\* the final validation, and the revert when it fails
EditAutoPlace(old, auto, otherItems, i, container, savedX, savedY, savedZ, mode) ==
    IF validatePlacement(auto, InsertAt(otherItems, i, auto), container).valid
    THEN [items |-> InsertAt(otherItems, i, Recolor(auto, mode)), outcome |-> "accepted",
          path |-> "autoPlace"]
    ELSE [items |-> InsertAt(otherItems, i, RevertEdit(auto, old, savedX, savedY, savedZ)),
          outcome |-> "failed", path |-> "revert"]

\* editItem's recovery ladder, entered when the mutated item does not validate
EditRecover(old, mutated, its, i, container, snap, grid, mode) ==
    LET retried == RetryLevels(mutated, its, i, EditLevels(Without(its, old.id)), 1,
                               container, snap, grid)
    IN  IF retried # <<>>
        THEN [items |-> Replace(its, i, Recolor(retried[1], mode)),
              outcome |-> "accepted", path |-> "level"]
        ELSE EditAutoPlace(old,
                 autoPlace(mutated, Without(its, old.id), container, snap, grid),
                 Without(its, old.id), i, container,
                 mutated.posX, mutated.posY, mutated.posZ, mode)

\* the rest of editItem once the item is mutated
EditFinish(old, mutated, its, i, changes, container, snap, grid, mode) ==
    IF validatePlacement(mutated, Replace(its, i, mutated), container).valid
       \/ ~DimsChanged(changes)
    THEN [items |-> Replace(its, i, Recolor(mutated, mode)), outcome |-> "accepted",
          path |-> "in place"]
    ELSE EditRecover(old, mutated, its, i, container, snap, grid, mode)

\* editItem(id, changes) on the list its
editItem(its, id, changes, container, snap, grid, mode) ==
    LET i == IndexOf(its, id)
    IN  EditFinish(its[i], EditMutate(its[i], its, i, changes, container, snap, grid),
                   its, i, changes, container, snap, grid, mode)

----------------------------------------------------------------------------
(* State machine *)

Call(op, id, outcome, arg, info) ==
    [n |-> last.n + 1, op |-> op, id |-> id, outcome |-> outcome, pre |-> items,
     arg |-> arg, info |-> info]

NoArg == [x \in {} |-> 0]

\* no mouse-down has happened yet
NoGesture ==
    [id |-> Null, start |-> [x |-> 0, y |-> 0, z |-> 0], n0 |-> 0, events |-> 0,
     turns |-> 0, moved |-> FALSE, far |-> FALSE, fresh |-> TRUE, consistent |-> TRUE]

Init ==
    /\ items = <<>>
    /\ itemMeshes = {}
    /\ labelIds = {}
    /\ selectedItemId = Null
    /\ containerSpec = CONTAINER_SPECS["20ft"]
    /\ snapEnabled = TRUE
    /\ gridSize = DEFAULT_GRID_SIZE
    /\ colorMode = "custom"
    /\ colorCounter = 0
    /\ idCounter = 0
    /\ isDragging = FALSE
    /\ dragItem = Null
    /\ dragOrphan = <<>>
    /\ dragStartPos = [x |-> 0, y |-> 0, z |-> 0]
    /\ dragPlane = FALSE
    /\ ghostMesh = FALSE
    /\ gesture = NoGesture
    /\ last = [n |-> 0, op |-> "init", id |-> Null, outcome |-> "", pre |-> <<>>,
               arg |-> NoArg, info |-> ""]

\* the run is cut after MaxSteps calls
Running == last.n < MaxSteps

\* getNextColor()
NextColor == ITEM_COLORS[(colorCounter % Len(ITEM_COLORS)) + 1]

AddItem(data) ==
    IF ExceedsContainer(data, containerSpec)
    THEN /\ Running
         /\ last' = Call("addItem", Null, "rejected", data, "")
         /\ UNCHANGED <<dragVars, items, itemMeshes, labelIds, selectedItemId, containerSpec,
                        snapEnabled, gridSize, colorMode, colorCounter, idCounter>>
    ELSE /\ Running
         /\ Len(items) < MaxItems
         /\ idCounter < MaxCreated
         /\ LET id == idCounter + 1
                color == IF colorMode = "custom" THEN NextColor
                         ELSE IF colorMode = "category" THEN CATEGORY_COLORS[data.category]
                         ELSE getWeightColor(data.weightLbs)
                scan == AutoScan(NewItem(data, id, color), items, containerSpec,
                                 IF snapEnabled THEN gridSize ELSE 100)
                item == autoPlace(NewItem(data, id, color), items, containerSpec,
                                  snapEnabled, gridSize)
            IN  /\ items' = Append(items, item)
                /\ itemMeshes' = itemMeshes \cup {id}
                /\ labelIds' = labelIds \cup {id}
                /\ selectedItemId' = id
                /\ idCounter' = id
                /\ colorCounter' = IF colorMode = "custom" THEN colorCounter + 1
                                   ELSE colorCounter
                /\ last' = Call("addItem", id, "added", data,
                                IF scan # <<>> THEN "scan" ELSE "fallback")
         /\ UNCHANGED <<dragVars, containerSpec, snapEnabled, gridSize, colorMode>>

DeleteItem(id) ==
    /\ Running
    /\ id \in Ids(items)
    /\ items' = Without(items, id)
    /\ itemMeshes' = itemMeshes \ {id}
    /\ labelIds' = labelIds \ {id}
    /\ selectedItemId' = IF selectedItemId = id THEN Null ELSE selectedItemId
    /\ dragOrphan' = IF dragItem = id THEN <<items[IndexOf(items, id)]>> ELSE dragOrphan
    /\ last' = Call("deleteItem", id, "deleted", NoArg, "")
    /\ UNCHANGED <<containerSpec, snapEnabled, gridSize, colorMode, colorCounter,
                   idCounter, isDragging, dragItem, dragStartPos, dragPlane, ghostMesh,
                   gesture>>

MoveItem(id, axis, delta) ==
    /\ Running
    /\ id \in Ids(items)
    /\ LET r == moveItem(items, id, axis, delta, containerSpec, snapEnabled, gridSize)
       IN  /\ items' = r.items
           /\ itemMeshes' = IF r.outcome = "accepted" THEN itemMeshes \cup {id}
                            ELSE itemMeshes
           /\ labelIds' = IF r.outcome = "accepted" THEN labelIds \cup {id}
                          ELSE labelIds
           /\ last' = Call("moveItem", id, r.outcome, [axis |-> axis, delta |-> delta], "")
    /\ UNCHANGED <<dragVars, selectedItemId, containerSpec, snapEnabled, gridSize, colorMode,
                   colorCounter, idCounter>>

RotateItem(id, rotationType) ==
    /\ Running
    /\ id \in Ids(items)
    /\ LET r == rotateItem(items, id, rotationType, containerSpec, snapEnabled, gridSize)
       IN  /\ items' = r.items
           /\ itemMeshes' = IF r.outcome = "accepted" THEN itemMeshes \cup {id}
                            ELSE itemMeshes
           /\ labelIds' = IF r.outcome = "accepted" THEN labelIds \cup {id}
                          ELSE labelIds
           /\ last' = Call("rotateItem", id, r.outcome,
                           [rotationType |-> rotationType], "")
    /\ gesture' = IF dragItem = id /\ rotationType \in {"y", "tipForward"}
                  THEN [gesture EXCEPT !.turns = @ + 1] ELSE gesture
    /\ UNCHANGED <<selectedItemId, containerSpec, snapEnabled, gridSize, colorMode,
                   colorCounter, idCounter, isDragging, dragItem, dragOrphan,
                   dragStartPos, dragPlane, ghostMesh>>

\* the edit dialog sends the fields whose value differs from the item's
EditItem(id, changes) ==
    /\ Running
    /\ id \in Ids(items)
    /\ \A f \in DOMAIN changes : changes[f] # items[IndexOf(items, id)][f]
    /\ LET r == editItem(items, id, changes, containerSpec, snapEnabled, gridSize,
                         colorMode)
       IN  /\ items' = r.items
           /\ itemMeshes' = IF r.outcome = "accepted" THEN itemMeshes \cup {id}
                            ELSE itemMeshes
           /\ labelIds' = IF r.outcome = "accepted" THEN labelIds \cup {id}
                          ELSE labelIds
           /\ last' = Call("editItem", id, r.outcome, changes, r.path)
    /\ UNCHANGED <<dragVars, selectedItemId, containerSpec, snapEnabled, gridSize, colorMode,
                   colorCounter, idCounter>>

\* onToggleSnap
ToggleSnap ==
    /\ Running
    /\ snapEnabled' = ~snapEnabled
    /\ last' = Call("toggleSnap", Null, "", NoArg, "")
    /\ UNCHANGED <<dragVars, items, itemMeshes, labelIds, selectedItemId, containerSpec,
                   gridSize, colorMode, colorCounter, idCounter>>

ChangeGridSize(size) ==
    /\ Running
    /\ size # gridSize
    /\ gridSize' = size
    /\ last' = Call("changeGridSize", Null, "", NoArg, "")
    /\ UNCHANGED <<dragVars, items, itemMeshes, labelIds, selectedItemId, containerSpec,
                   snapEnabled, colorMode, colorCounter, idCounter>>

\* a container switch that would drop the items the new container rejects
changeContainer_DropsMisfits(its, name) ==
    [containerSpec |-> CONTAINER_SPECS[name],
     items |-> SelectSeq(its, LAMBDA it :
                    validatePlacement(it, its, CONTAINER_SPECS[name]).valid),
     warned |-> \E i \in DOMAIN its :
                    ~validatePlacement(its[i], its, CONTAINER_SPECS[name]).valid]

\* changeContainer: the spec is replaced, every item is validated against it
\* only to show warnings, and the item list is not touched
changeContainer(its, name) ==
    [containerSpec |-> CONTAINER_SPECS[name],
     items |-> its,
     warned |-> \E i \in DOMAIN its :
                    ~validatePlacement(its[i], its, CONTAINER_SPECS[name]).valid]

\* a click on one of the container buttons, the active one included
ChangeContainer(name) ==
    /\ Running
    /\ containerSpec' = changeContainer(items, name).containerSpec
    /\ items' = changeContainer(items, name).items
    /\ last' = Call("changeContainer", Null, "", [name |-> name],
                    IF changeContainer(items, name).warned THEN "warning" ELSE "")
    /\ UNCHANGED <<dragVars, itemMeshes, labelIds, selectedItemId, snapEnabled, gridSize,
                   colorMode, colorCounter, idCounter>>

Next ==
    \/ \E data \in AddInputs : AddItem(data)
    \/ \E id \in Ids(items) : DeleteItem(id)
    \/ \E id \in Ids(items), axis \in {"x", "y", "z"}, dir \in {1, -1} :
          MoveItem(id, axis, dir * gridSize)
    \/ \E id \in Ids(items), t \in {"y", "tipForward", "tipSide"} : RotateItem(id, t)
    \/ \E id \in Ids(items), changes \in EditChanges : EditItem(id, changes)
    \/ ToggleSnap
    \/ \E size \in GridChoices : ChangeGridSize(size)

Spec == Init /\ [][Next]_vars

\* the container buttons that are clicked: the initial container and the
\* longer one
ContainerChoices == {"20ft", "40ft"}

\* the item operations together with switching the container
NextContainer ==
    \/ Next
    \/ \E name \in ContainerChoices : ChangeContainer(name)

SpecContainer == Init /\ [][NextContainer]_vars

----------------------------------------------------------------------------
(* The placement helpers applied to arguments of their own: the arguments  *)
(* are drawn around every tolerance of the source, in the '20ft' container *)
(* of CONTAINER_SPECS (12.5" x 6.5" x 12.5").                              *)

\* a CargoItem at a given place; the helpers read id, label, position and
\* dimensions only
Box(id, label, x, y, z, l, w, h) ==
    [id |-> id, label |-> label, lengthIn |-> l, widthIn |-> w, heightIn |-> h,
     origLengthIn |-> l, origWidthIn |-> w, origHeightIn |-> h,
     weightLbs |-> 100, category |-> "general", color |-> "#5b8af5",
     posX |-> x, posY |-> y, posZ |-> z, visible |-> TRUE, rotationY |-> 0]

\* the item under test: identifier 9
ProbeItems ==
    { Box(9, "probe", x, y, z, d[1], d[2], d[3]) :
        x \in {-1, 0, 300, 360, 361, 549, 550, 598, 599, 600, 700, 701},
        y \in {-1, 0, 10, 11, 501, 599, 600, 699, 700, 701},
        z \in {0, 100, 101},
        d \in {<<600, 600, 600>>, <<1, 600, 600>>, <<600, 600, 1>>} }

\* the other items of the list: identifiers 1 to 5
ProbeOthers ==
    { Box(1, "o1", 0, 0, 0, 600, 600, 600),
      Box(2, "o2", 600, 0, 0, 600, 600, 600),
      Box(3, "o3", 0, 0, 0, 600, 600, 700),
      Box(4, "o4", 300, 0, 0, 600, 600, 701),
      Box(5, "o5", 0, 600, 0, 600, 600, 600) }

Range(q) == {q[i] : i \in DOMAIN q}

\* the lists of at most n distinct members of ProbeOthers
RECURSIVE ProbeLists(_)
ProbeLists(n) ==
    IF n = 0 THEN {<<>>}
    ELSE ProbeLists(n - 1) \cup
         {Append(q, o) : q \in {r \in ProbeLists(n - 1) : Len(r) = n - 1},
                         o \in ProbeOthers}

DistinctLists(n) == {q \in ProbeLists(n) : Cardinality(Range(q)) = Len(q)}

\* an argument list: the other items, with or without the item itself
ProbeArgs(item) ==
    DistinctLists(MaxOthers) \cup {<<item>> \o q : q \in DistinctLists(MaxOthers)}

Probe(fn, item, allItems, ret) ==
    [n |-> 0, op |-> fn, id |-> item.id, outcome |-> "returned", pre |-> allItems,
     arg |-> [item |-> item], info |-> "", ret |-> ret]

\* a function is applied once per run, from the initial state
Fresh == last.op = "init"

ProbeValidatePlacement ==
    /\ Fresh
    /\ \E item \in ProbeItems : \E allItems \in ProbeArgs(item) :
          last' = Probe("validatePlacement", item, allItems,
                        validatePlacement(item, allItems, containerSpec))
    /\ UNCHANGED <<dragVars, items, itemMeshes, labelIds, selectedItemId, containerSpec,
                   snapEnabled, gridSize, colorMode, colorCounter, idCounter>>

ProbeCheckOverlap ==
    /\ Fresh
    /\ \E a \in ProbeItems, b \in ProbeOthers :
          last' = Probe("checkOverlap", a, <<b>>, checkOverlap(a, b))
    /\ UNCHANGED <<dragVars, items, itemMeshes, labelIds, selectedItemId, containerSpec,
                   snapEnabled, gridSize, colorMode, colorCounter, idCounter>>

ProbeIsSupported ==
    /\ Fresh
    /\ \E item \in ProbeItems : \E allItems \in ProbeArgs(item) :
          last' = Probe("isSupported", item, allItems, isSupported(item, allItems))
    /\ UNCHANGED <<dragVars, items, itemMeshes, labelIds, selectedItemId, containerSpec,
                   snapEnabled, gridSize, colorMode, colorCounter, idCounter>>

ProbeFindStackingY ==
    /\ Fresh
    /\ \E item \in ProbeItems : \E allItems \in ProbeArgs(item) :
          last' = Probe("findStackingY", item, allItems,
                        findStackingY(item, allItems, containerSpec))
    /\ UNCHANGED <<dragVars, items, itemMeshes, labelIds, selectedItemId, containerSpec,
                   snapEnabled, gridSize, colorMode, colorCounter, idCounter>>

\* the levels of an item, next to the y findStackingY picks for it
ProbeFindAllStackLevels ==
    /\ Fresh
    /\ \E item \in ProbeItems : \E allItems \in ProbeArgs(item) :
          last' = Probe("findAllStackLevels", item, allItems,
                        [levels |-> findAllStackLevels(item, allItems, containerSpec),
                         y |-> findStackingY(item, allItems, containerSpec).y])
    /\ UNCHANGED <<dragVars, items, itemMeshes, labelIds, selectedItemId, containerSpec,
                   snapEnabled, gridSize, colorMode, colorCounter, idCounter>>

\* the validator's boundary check of one item
WithinBounds(item, container) ==
    /\ item.posX >= 0 /\ item.posX + item.lengthIn <= container.lengthIn + HalfInch
    /\ item.posZ >= 0 /\ item.posZ + item.widthIn <= container.widthIn + HalfInch
    /\ item.posY >= 0 /\ item.posY + item.heightIn <= container.heightIn + HalfInch

\* every item within bounds and no two items overlapping
Consistent(its, container) ==
    /\ \A i \in DOMAIN its : WithinBounds(its[i], container)
    /\ \A i, j \in DOMAIN its : i # j => ~checkOverlap(its[i], its[j])

----------------------------------------------------------------------------
(* Drag gesture: onMouseDown, onMouseMove, onMouseUp of ContainerVizApp.   *)
(* this.dragItem is a reference to an element of this.items; the element   *)
(* is found here by its id, and lives on in dragOrphan once deleteItem has  *)
(* filtered it out of the list.                                             *)

\* the list with the item's entry, if it has one, replaced by the item
WithItem(its, item) ==
    IF item.id \in Ids(its) THEN Replace(its, IndexOf(its, item.id), item) ELSE its

\* the object this.dragItem refers to
DragObject ==
    IF dragItem \in Ids(items) THEN items[IndexOf(items, dragItem)] ELSE dragOrphan[1]

\* Math.max(0, Math.min(v, limit))
DragClamp(v, limit) == Max(0, Min(v, limit))

\* onMouseMove: the new X and Z, snapped and then clamped into the container
DragTo(item, raw, container, snap, grid) ==
    [item EXCEPT
        !.posX = DragClamp(IF snap THEN snapToGrid(raw.x, grid) ELSE raw.x,
                           container.lengthIn - item.lengthIn),
        !.posZ = DragClamp(IF snap THEN snapToGrid(raw.z, grid) ELSE raw.z,
                           container.widthIn - item.widthIn)]

\* onMouseMove: the stacking height there, or the floor while Shift is held
DragLift(item, its, container, snap, grid, shift) ==
    [item EXCEPT
        !.posY = IF shift THEN 0
                 ELSE IF snap THEN snapToGrid(findStackingY(item, its, container).y, grid)
                 ELSE findStackingY(item, its, container).y]

\* the dragged item as a mouse-move over the drag plane leaves it
onMouseMove(item, its, raw, shift, container, snap, grid) ==
    DragLift(DragTo(item, raw, container, snap, grid),
             WithItem(its, DragTo(item, raw, container, snap, grid)),
             container, snap, grid, shift)

\* onMouseUp: 0 and the tops of the other items under the dragged footprint
DropLevels(item, its) ==
    SortedSeq({0} \cup
        {its[j].posY + its[j].heightIn : j \in
            {k \in DOMAIN its :
                /\ its[k].id # item.id
                /\ Min(item.posX + item.lengthIn, its[k].posX + its[k].lengthIn)
                     - Max(item.posX, its[k].posX) > HalfInch
                /\ Min(item.posZ + item.widthIn, its[k].posZ + its[k].widthIn)
                     - Max(item.posZ, its[k].posZ) > HalfInch}})

\* onMouseUp: the levels from index k on; <<item>> at the first one that
\* validates, <<>> if none does
RECURSIVE DropRetry(_, _, _, _, _, _, _)
DropRetry(item, its, levels, k, container, snap, grid) ==
    IF k > Len(levels) THEN <<>>
    ELSE IF validatePlacement(
                [item EXCEPT !.posY = IF snap THEN snapToGrid(levels[k], grid)
                                      ELSE levels[k]],
                its, container).valid
         THEN <<[item EXCEPT !.posY = IF snap THEN snapToGrid(levels[k], grid)
                                      ELSE levels[k]]>>
    ELSE DropRetry(item, its, levels, k + 1, container, snap, grid)

\* onMouseUp: back to dragStartPos
DropRevert(item, start) ==
    [item EXCEPT !.posX = start.x, !.posY = start.y, !.posZ = start.z]

\* result.errors.some(e => e.includes('overlaps'))
HasOverlap(result) ==
    \E k \in DOMAIN result.errors : result.errors[k].kind = "overlap"

\* onMouseUp: the retry at the levels, the revert when none validates
DropOnOverlap(item, its, start, container, snap, grid) ==
    IF DropRetry(item, its, DropLevels(item, its), 1, container, snap, grid) # <<>>
    THEN [item |-> DropRetry(item, its, DropLevels(item, its), 1, container, snap,
                             grid)[1],
          outcome |-> "lifted"]
    ELSE [item |-> DropRevert(item, start), outcome |-> "reverted"]

\* the dragged item as onMouseUp leaves it at the end of a drag
onMouseUp(item, its, start, container, snap, grid) ==
    IF validatePlacement(item, its, container).valid
    THEN [item |-> item, outcome |-> "dropped"]
    ELSE IF HasOverlap(validatePlacement(item, its, container))
         THEN DropOnOverlap(item, its, start, container, snap, grid)
    ELSE [item |-> DropRevert(item, start), outcome |-> "reverted"]

\* where the pointer ray meets the drag plane, less the drag offset: the raw
\* X and Z asked for, or no intersection
DragXs == {0, 300, 650}
DragZs == {0, 200}
DragPoints ==
    {[on |-> TRUE, x |-> x, z |-> z] : x \in DragXs, z \in DragZs}
    \cup {[on |-> FALSE, x |-> 0, z |-> 0]}

\* a press of the left button; target is the item the ray hits, if any
MouseDown(target) ==
    /\ Running
    /\ target \in {Null} \cup (Ids(items) \cap itemMeshes)
    /\ selectedItemId' = target
    /\ IF target # Null
       THEN /\ dragItem' = target
            /\ dragOrphan' = <<>>
            /\ dragStartPos' = [x |-> items[IndexOf(items, target)].posX,
                                y |-> items[IndexOf(items, target)].posY,
                                z |-> items[IndexOf(items, target)].posZ]
            /\ dragPlane' = TRUE
            /\ ghostMesh' = TRUE
       ELSE UNCHANGED <<dragItem, dragOrphan, dragStartPos, dragPlane, ghostMesh>>
    /\ gesture' = [id |-> target,
                   start |-> IF target # Null
                             THEN [x |-> items[IndexOf(items, target)].posX,
                                   y |-> items[IndexOf(items, target)].posY,
                                   z |-> items[IndexOf(items, target)].posZ]
                             ELSE [x |-> 0, y |-> 0, z |-> 0],
                   n0 |-> last.n + 1, events |-> 0, turns |-> 0, moved |-> FALSE,
                   far |-> FALSE, fresh |-> ~isDragging,
                   consistent |-> Consistent(items, containerSpec)]
    /\ last' = Call("mouseDown", target, IF target # Null THEN "hit" ELSE "miss",
                    NoArg, "")
    /\ UNCHANGED <<items, itemMeshes, labelIds, containerSpec, snapEnabled, gridSize,
                   colorMode, colorCounter, idCounter, isDragging>>

\* point - dragOffset: within 5 pixels of the mouse-down point the pointer
\* asks for the place the item had at mouse-down, further away for raw
DragPoint(far, raw) ==
    IF far THEN raw ELSE [on |-> TRUE, x |-> dragStartPos.x, z |-> dragStartPos.z]

\* a pointer move; far is whether it is 5 pixels or more from the mouse-down
\* point, shift whether Shift is held (shiftHeld, set and cleared by key
\* events that can come between any two mouse events)
MouseMove(far, raw, shift) ==
    /\ Running
    /\ IF dragItem = Null \/ ~dragPlane \/ (~far /\ ~isDragging)
       THEN /\ last' = Call("mouseMove", dragItem, "ignored", NoArg, "")
            /\ gesture' = [gesture EXCEPT !.events = @ + 1, !.far = @ \/ far]
            /\ UNCHANGED <<items, dragOrphan, isDragging>>
       ELSE /\ isDragging' = TRUE
            /\ gesture' = [gesture EXCEPT !.events = @ + 1, !.moved = TRUE,
                                          !.far = @ \/ far]
            /\ items' = IF DragPoint(far, raw).on
                        THEN WithItem(items, onMouseMove(DragObject, items,
                                         DragPoint(far, raw), shift,
                                         containerSpec, snapEnabled, gridSize))
                        ELSE items
            /\ dragOrphan' = IF DragPoint(far, raw).on /\ dragItem \notin Ids(items)
                             THEN <<onMouseMove(DragObject, items, DragPoint(far, raw),
                                                shift, containerSpec, snapEnabled,
                                                gridSize)>>
                             ELSE dragOrphan
            /\ last' = Call("mouseMove", dragItem,
                            IF DragPoint(far, raw).on THEN "moved" ELSE "off plane",
                            NoArg, "")
    /\ UNCHANGED <<itemMeshes, labelIds, selectedItemId, containerSpec, snapEnabled,
                   gridSize, colorMode, colorCounter, idCounter, dragItem, dragStartPos,
                   dragPlane, ghostMesh>>

\* the release of the button: the end of a drag, or of a click
MouseUp ==
    /\ Running
    /\ IF isDragging /\ dragItem # Null
       THEN /\ items' = WithItem(items,
                            onMouseUp(DragObject, items, dragStartPos, containerSpec,
                                      snapEnabled, gridSize).item)
            /\ itemMeshes' = itemMeshes \cup {dragItem}
            /\ labelIds' = labelIds \cup {dragItem}
            /\ last' = Call("mouseUp", dragItem,
                            onMouseUp(DragObject, items, dragStartPos, containerSpec,
                                      snapEnabled, gridSize).outcome, NoArg, "")
       ELSE /\ last' = Call("mouseUp", dragItem, "click", NoArg, "")
            /\ UNCHANGED <<items, itemMeshes, labelIds>>
    /\ isDragging' = FALSE
    /\ dragItem' = Null
    /\ dragOrphan' = <<>>
    /\ dragPlane' = FALSE
    /\ ghostMesh' = FALSE
    /\ UNCHANGED <<selectedItemId, containerSpec, snapEnabled, gridSize, colorMode,
                   colorCounter, idCounter, dragStartPos, gesture>>

\* a loaded container a session can be in when a gesture starts: a tall crate
\* at the origin and a slab further along the floor (both added through the
\* form, the slab then dragged there with snapping off)
DragArrangements ==
    { <<Box(1, "tall", 0, 0, 0, 600, 600, 800), Box(2, "slab", 800, 0, 0, 400, 600, 600)>> }

InitDrag ==
    /\ items \in DragArrangements
    /\ itemMeshes = Ids(items)
    /\ labelIds = Ids(items)
    /\ selectedItemId = Null
    /\ containerSpec = CONTAINER_SPECS["20ft"]
    /\ snapEnabled \in BOOLEAN
    /\ gridSize = DEFAULT_GRID_SIZE
    /\ colorMode = "custom"
    /\ colorCounter = Len(items)
    /\ idCounter = Len(items)
    /\ isDragging = FALSE
    /\ dragItem = Null
    /\ dragOrphan = <<>>
    /\ dragStartPos = [x |-> 0, y |-> 0, z |-> 0]
    /\ dragPlane = FALSE
    /\ ghostMesh = FALSE
    /\ gesture = NoGesture
    /\ last = [n |-> 0, op |-> "init", id |-> Null, outcome |-> "", pre |-> items,
               arg |-> NoArg, info |-> ""]

\* the mouse events on the canvas together with the keys that act on the
\* selected item: Delete or Backspace, R (turn) and T (tip forward)
NextDrag ==
    \/ selectedItemId # Null /\ DeleteItem(selectedItemId)
    \/ \E t \in {"y", "tipForward"} :
          selectedItemId # Null /\ RotateItem(selectedItemId, t)
    \/ \E target \in {Null} \cup Ids(items) : MouseDown(target)
    \/ \E far \in BOOLEAN, raw \in DragPoints, shift \in BOOLEAN :
          MouseMove(far, raw, shift)
    \/ MouseUp

SpecDrag == InitDrag /\ [][NextDrag]_vars

Crate(id, label, x, y, z, l, w, h, weight) ==
    [Box(id, label, x, y, z, l, w, h) EXCEPT !.weightLbs = weight]

\* a loaded arrangement to draw lists from: three 1-inch plates stacked at
\* the front-left corner, two crates along the floor with weights 8 lbs
\* apart, a light crate on a heavy one, a crate centred on both midlines of
\* the 20ft container, and a weightless one; the light crate is fragile; a
\* tall crate elsewhere on the floor has its top at the fragile one's bottom
PlanItems ==
    { Crate(1, "p1", 0, 0, 0, 300, 300, 100, 100),
      Crate(2, "p2", 0, 100, 0, 300, 300, 100, 200),
      Crate(3, "p3", 0, 200, 0, 300, 300, 100, 300),
      Crate(4, "f2", 300, 0, 0, 300, 300, 300, 108),
      Crate(5, "f3", 600, 0, 0, 300, 300, 300, 116),
      Crate(6, "b1", 900, 0, 0, 300, 300, 600, 500),
      [Crate(7, "b2", 900, 600, 0, 300, 300, 300, 50) EXCEPT !.category = "fragile"],
      Crate(8, "c1", 475, 0, 175, 300, 300, 300, 400),
      Crate(9, "z1", 900, 0, 325, 300, 300, 300, 0),
      Crate(10, "t1", 0, 0, 325, 300, 300, 600, 150) }

\* the lists of at most n distinct members of PlanItems, in every order
RECURSIVE PlanLists(_)
PlanLists(n) ==
    IF n = 0 THEN {<<>>}
    ELSE PlanLists(n - 1) \cup
         {Append(q, o) : q \in {r \in PlanLists(n - 1) : Len(r) = n - 1},
                         o \in PlanItems}

\* those that are arrangements the validator accepts
PlanArgs ==
    {q \in PlanLists(MaxPlan) :
        Cardinality(Range(q)) = Len(q) /\ Consistent(q, containerSpec)}

ProbeGetWeightDistribution ==
    /\ Fresh
    /\ \E its \in PlanArgs :
          last' = [n |-> 0, op |-> "getWeightDistribution", id |-> Null,
                   outcome |-> "returned", pre |-> its, arg |-> NoArg, info |-> "",
                   ret |-> getWeightDistribution(its, containerSpec)]
    /\ UNCHANGED <<dragVars, items, itemMeshes, labelIds, selectedItemId, containerSpec,
                   snapEnabled, gridSize, colorMode, colorCounter, idCounter>>

\* the plan of an arrangement, under either sort engine
ProbeGenerateLoadPlan ==
    /\ Fresh
    /\ \E its \in PlanArgs, engine \in SortEngines :
          last' = [n |-> 0, op |-> "generateLoadPlan", id |-> Null,
                   outcome |-> "returned", pre |-> its, arg |-> [engine |-> engine],
                   info |-> "",
                   ret |-> generateLoadPlan(its, containerSpec, engine)]
    /\ UNCHANGED <<dragVars, items, itemMeshes, labelIds, selectedItemId, containerSpec,
                   snapEnabled, gridSize, colorMode, colorCounter, idCounter>>

ProbeSnapToGrid ==
    /\ Fresh
    /\ \E value \in -MaxValue..MaxValue, grid \in GRID_SIZES :
          last' = [n |-> 0, op |-> "snapToGrid", id |-> Null, outcome |-> "returned",
                   pre |-> <<>>, arg |-> [value |-> value, grid |-> grid], info |-> "",
                   ret |-> [once |-> snapToGrid(value, grid),
                            twice |-> snapToGrid(snapToGrid(value, grid), grid)]]
    /\ UNCHANGED <<dragVars, items, itemMeshes, labelIds, selectedItemId, containerSpec,
                   snapEnabled, gridSize, colorMode, colorCounter, idCounter>>

\* items in every yaw state, with a footprint that is square or not
RotateProbes ==
    {[Box(9, "probe", 600, 0, 0, d[1], d[2], d[3]) EXCEPT !.rotationY = r,
          !.origLengthIn = o[1], !.origWidthIn = o[2], !.origHeightIn = o[3]] :
        d \in {<<600, 400, 300>>, <<400, 400, 300>>, <<300, 600, 400>>},
        o \in {<<600, 400, 300>>, <<300, 600, 400>>},
        r \in 0..3}

\* rotateItemY applied four times in a row, every intermediate item kept
ProbeRotateItemY ==
    /\ Fresh
    /\ \E item \in RotateProbes :
          LET r1 == rotateItemY(item)
              r2 == rotateItemY(r1)
              r3 == rotateItemY(r2)
          IN  last' = Probe("rotateItemY", item, <<>>, <<r1, r2, r3, rotateItemY(r3)>>)
    /\ UNCHANGED <<dragVars, items, itemMeshes, labelIds, selectedItemId, containerSpec,
                   snapEnabled, gridSize, colorMode, colorCounter, idCounter>>

NextFn ==
    \/ ProbeValidatePlacement
    \/ ProbeCheckOverlap
    \/ ProbeIsSupported
    \/ ProbeFindStackingY
    \/ ProbeSnapToGrid
    \/ ProbeRotateItemY
    \/ ProbeGetWeightDistribution
    \/ ProbeGenerateLoadPlan
    \/ ProbeFindAllStackLevels

SpecFn == Init /\ [][NextFn]_vars

----------------------------------------------------------------------------
(* Properties *)

TypeOK ==
    /\ Len(items) <= MaxItems
    /\ Cardinality(Ids(items)) = Len(items)
    /\ idCounter <= MaxCreated
    /\ snapEnabled \in BOOLEAN
    /\ gridSize \in GRID_SIZES
    /\ \A i \in DOMAIN items : items[i].rotationY \in 0..3

\* C1: if every item is within bounds and no two overlap before a moveItem,
\* rotateItem or editItem call, the same holds after the call, accepted or not.
C1_MutationPreservesConsistency ==
    (/\ last.op \in {"moveItem", "rotateItem", "editItem"}
     /\ Consistent(last.pre, containerSpec))
    => Consistent(items, containerSpec)

\* C2: from the empty set, after any sequence of addItem, deleteItem,
\* moveItem, rotateItem and editItem calls no two items overlap and every
\* item is within the container bounds.
C2_AlwaysConsistent == Consistent(items, containerSpec)

\* C3: a moveItem or rotateItem whose validation fails leaves every field of
\* the item, and every other item, as before the call.
C3_RejectedMoveRotateRestores ==
    (last.op \in {"moveItem", "rotateItem"} /\ last.outcome = "rejected")
    => items = last.pre

\* a yaw rotation was rejected while two items were loaded
C3_Witness ==
    /\ last.op = "rotateItem" /\ last.outcome = "rejected"
    /\ last.arg.rotationType = "y"
    /\ Len(items) = 2

\* C4: an editItem that changes dimensions and fails every recovery step
\* rolls every field of the item back to its value before the call.
C4_FailedEditRestores ==
    (last.op = "editItem" /\ last.outcome = "failed") => items = last.pre

----------------------------------------------------------------------------
(* Properties of the pure functions, over the recorded applications *)

\* the errors of a result that have the given kind
ErrorsOfKind(result, kind) ==
    {k \in DOMAIN result.errors : result.errors[k].kind = kind}

\* the entries of a list that are not the item itself and overlap it
Colliding(item, allItems) ==
    {j \in DOMAIN allItems :
        allItems[j].id # item.id /\ checkOverlap(item, allItems[j])}

\* C5: validatePlacement reports one boundary error for each axis on which
\* the item starts below 0 or ends beyond the container by more than half an
\* inch, one overlap error for each other item it overlaps, the unsupported
\* warning exactly when posY > 0 and isSupported is false, and is valid
\* exactly when there is no error; no finding suppresses a later one.
C5_ValidatePlacementExact ==
    last.op = "validatePlacement" =>
        LET item == last.arg.item
            r == last.ret
            Count(kind, bad) ==
                Cardinality(ErrorsOfKind(r, kind)) = IF bad THEN 1 ELSE 0
        IN  /\ Count("length", item.posX < 0
                   \/ item.posX + item.lengthIn > containerSpec.lengthIn + HalfInch)
            /\ Count("width", item.posZ < 0
                   \/ item.posZ + item.widthIn > containerSpec.widthIn + HalfInch)
            /\ Count("height", item.posY < 0
                   \/ item.posY + item.heightIn > containerSpec.heightIn + HalfInch)
            /\ Cardinality(ErrorsOfKind(r, "overlap"))
                   = Cardinality(Colliding(item, last.pre))
            /\ \A j \in Colliding(item, last.pre) :
                   \E k \in ErrorsOfKind(r, "overlap") :
                       r.errors[k].other = last.pre[j].label
            /\ \A k \in DOMAIN r.errors :
                   r.errors[k].kind \in {"length", "width", "height", "overlap"}
            /\ Len(r.warnings)
                   = IF item.posY > 0 /\ ~isSupported(item, last.pre) THEN 1 ELSE 0
            /\ r.valid <=> (r.errors = <<>>)

\* one call reported a boundary error, an overlap error and the warning together
C5_Witness ==
    /\ last.op = "validatePlacement"
    /\ ErrorsOfKind(last.ret, "length") # {}
    /\ ErrorsOfKind(last.ret, "overlap") # {}
    /\ last.ret.warnings # <<>>
    /\ ~last.ret.valid

\* interpenetration of two items on the three axes: min of the ends minus max
\* of the starts
DepthX(a, b) == Min(a.posX + a.lengthIn, b.posX + b.lengthIn) - Max(a.posX, b.posX)
DepthY(a, b) == Min(a.posY + a.heightIn, b.posY + b.heightIn) - Max(a.posY, b.posY)
DepthZ(a, b) == Min(a.posZ + a.widthIn, b.posZ + b.widthIn) - Max(a.posZ, b.posZ)

Interpenetrate(a, b) ==
    DepthX(a, b) > Eps /\ DepthY(a, b) > Eps /\ DepthZ(a, b) > Eps

\* every edge of the box is longer than the tolerance
Thick(a) == a.lengthIn > Eps /\ a.widthIn > Eps /\ a.heightIn > Eps

\* C6 (as stated): checkOverlap(a, b) is true exactly when the two boxes
\* interpenetrate by more than 0.01 on each of the three axes.
C6_OverlapIffInterpenetration ==
    last.op = "checkOverlap" =>
        (last.ret <=> Interpenetrate(last.arg.item, last.pre[1]))

\* C6 (amended): for two boxes whose edges are all longer than 0.01,
\* checkOverlap(a, b) is true exactly when they interpenetrate by more than
\* 0.01 on each axis, so boxes that only touch do not overlap.
C6_OverlapIffInterpenetrationThick ==
    (last.op = "checkOverlap" /\ Thick(last.arg.item) /\ Thick(last.pre[1])) =>
        (last.ret <=> Interpenetrate(last.arg.item, last.pre[1]))

\* two thick boxes sharing a face were compared and found not overlapping
C6_Witness ==
    /\ last.op = "checkOverlap"
    /\ Thick(last.arg.item) /\ Thick(last.pre[1])
    /\ DepthX(last.arg.item, last.pre[1]) = 0
    /\ DepthY(last.arg.item, last.pre[1]) > Eps
    /\ DepthZ(last.arg.item, last.pre[1]) > Eps
    /\ ~last.ret

\* C7: isSupported is true for an item with posY <= 0.1, whatever the others.
C7_FloorIsSupported ==
    (last.op = "isSupported" /\ last.arg.item.posY <= FloorTol) => last.ret

\* an item at posY = 0.1 exactly, with nothing else in the list, was supported
C7_Witness ==
    /\ last.op = "isSupported"
    /\ last.arg.item.posY = FloorTol
    /\ last.pre = <<>>
    /\ last.ret

\* the others whose top is within 1 inch of the item's bottom
Backers(item, allItems) ==
    {j \in DOMAIN allItems :
        /\ allItems[j].id # item.id
        /\ Abs(allItems[j].posY + allItems[j].heightIn - item.posY) < BelowTol}

\* footprint of b under a: the overlap on X times the overlap on Z, 0 if none
Shared(a, b) == Max(0, DepthX(a, b)) * Max(0, DepthZ(a, b))

RECURSIVE SumShared(_, _, _)
SumShared(item, allItems, js) ==
    IF js = {} THEN 0
    ELSE LET j == CHOOSE k \in js : TRUE
         IN  Shared(item, allItems[j]) + SumShared(item, allItems, js \ {j})

\* C8: for an item with posY > 0.1, isSupported is true exactly when the
\* summed X-Z overlap with the others whose top is within 1 inch of its
\* bottom is at least 40% of its footprint.
C8_SupportedIffFortyPercent ==
    (last.op = "isSupported" /\ last.arg.item.posY > FloorTol) =>
        LET item == last.arg.item
        IN  last.ret <=>
                SupportDen * SumShared(item, last.pre, Backers(item, last.pre))
                    >= SupportNum * item.lengthIn * item.widthIn

\* a raised item backed by exactly 40% of its footprint was found supported
C8_Witness ==
    /\ last.op = "isSupported"
    /\ last.arg.item.posY > FloorTol
    /\ SupportDen * SumShared(last.arg.item, last.pre,
                              Backers(last.arg.item, last.pre))
           = SupportNum * last.arg.item.lengthIn * last.arg.item.widthIn
    /\ last.ret

\* the others an item may be stacked on: more than half an inch of overlap on
\* X and on Z, and the item on top of them ends within the ceiling tolerance
Bases(item, allItems, container) ==
    {j \in DOMAIN allItems :
        /\ allItems[j].id # item.id
        /\ DepthX(item, allItems[j]) > HalfInch
        /\ DepthZ(item, allItems[j]) > HalfInch
        /\ allItems[j].posY + allItems[j].heightIn + item.heightIn
               <= container.heightIn + HalfInch}

TopOf(it) == it.posY + it.heightIn


\* C9: findStackingY returns the highest top among the others that overlap
\* the item on X and Z by more than half an inch and leave it under the
\* ceiling, together with one of them having that top; with none it returns
\* y = 0 and no item; y does not depend on the order of the list.
C9_StackingYIsHighestTop ==
    last.op = "findStackingY" =>
        LET item == last.arg.item
            bases == Bases(item, last.pre, containerSpec)
        IN  /\ IF bases = {}
               THEN last.ret.y = 0 /\ last.ret.stackedOn = Null
               ELSE /\ \A j \in bases : TopOf(last.pre[j]) <= last.ret.y
                    /\ \E j \in bases : /\ TopOf(last.pre[j]) = last.ret.y
                                        /\ last.pre[j].id = last.ret.stackedOn
            /\ findStackingY(item, Reverse(last.pre), containerSpec).y = last.ret.y

\* the highest of two different candidate tops was chosen though the lower
\* one came later in the list
C9_Witness ==
    /\ last.op = "findStackingY"
    /\ \E j, k \in Bases(last.arg.item, last.pre, containerSpec) :
          /\ j < k
          /\ TopOf(last.pre[j]) > TopOf(last.pre[k])
          /\ TopOf(last.pre[j]) = last.ret.y

\* C10: an addItem whose length, width or height exceeds the container's
\* leaves the item collection as it was.
C10_OversizeAddRejected ==
    (/\ last.op = "addItem"
     /\ \/ last.arg.lengthIn > containerSpec.lengthIn
        \/ last.arg.widthIn > containerSpec.widthIn
        \/ last.arg.heightIn > containerSpec.heightIn)
    => items = last.pre

\* an item too tall only was handed to addItem when the set was not empty
C10_Witness ==
    /\ last.op = "addItem"
    /\ last.arg.heightIn > containerSpec.heightIn
    /\ last.arg.lengthIn <= containerSpec.lengthIn
    /\ last.arg.widthIn <= containerSpec.widthIn
    /\ items # <<>>
    /\ items = last.pre

----------------------------------------------------------------------------
(* Properties of placement fallback, snapping, rotation, weight balance,   *)
(* the load plan and the container switch                                  *)

\* the coordinates 0, step, 2*step, ... up to limit
GridPoints(limit, step) ==
    IF limit < 0 THEN {} ELSE {k * step : k \in 0..(limit \div step)}

\* no scanned position validates without a warning
NoCleanSpot(item, its, container, step) ==
    \A y \in GridPoints(container.heightIn - item.heightIn, step),
       x \in GridPoints(container.lengthIn - item.lengthIn, step),
       z \in GridPoints(container.widthIn - item.widthIn, step) :
        LET r == validatePlacement([item EXCEPT !.posX = x, !.posY = y, !.posZ = z],
                                   its, container)
        IN  ~(r.valid /\ r.warnings = <<>>)

\* the item addItem appended
Added == items[Len(items)]

\* C11: when no scanned position is valid without warning, the added item is
\* left at posX = 0, posZ = 0 and posY = findStackingY(item at the origin).y,
\* and the set still grows by exactly that item, valid or not.
C11_FallbackPlacement ==
    (/\ last.op = "addItem" /\ last.outcome = "added"
     /\ NoCleanSpot(Added, last.pre, containerSpec,
                    IF snapEnabled THEN gridSize ELSE 100))
    => /\ Len(items) = Len(last.pre) + 1
       /\ SubSeq(items, 1, Len(last.pre)) = last.pre
       /\ Added.posX = 0 /\ Added.posZ = 0
       /\ Added.posY = findStackingY(
              [Added EXCEPT !.posX = 0, !.posY = 0, !.posZ = 0],
              last.pre, containerSpec).y

\* an item was added by the fallback although its placement has errors
C11_Witness ==
    /\ last.op = "addItem" /\ last.outcome = "added"
    /\ NoCleanSpot(Added, last.pre, containerSpec,
                   IF snapEnabled THEN gridSize ELSE 100)
    /\ Len(items) = Len(last.pre) + 1
    /\ ~validatePlacement(Added, items, containerSpec).valid

\* C12: snapToGrid is idempotent for every value and allowed grid size, and
\* returns every multiple of the grid size unchanged.
C12_SnapIdempotent ==
    last.op = "snapToGrid" =>
        /\ last.ret.twice = last.ret.once
        /\ (last.arg.value % last.arg.grid = 0) => last.ret.once = last.arg.value

\* a negative value half a cell below a multiple was snapped up to it
C12_Witness ==
    /\ last.op = "snapToGrid"
    /\ last.arg.value < 0
    /\ 2 * (last.ret.once - last.arg.value) = last.arg.grid
    /\ last.ret.twice = last.ret.once

\* C13: four applications of rotateItemY give back the length, the width and
\* the rotation counter the item started with; the height and the original
\* dimensions are the same after each application.
C13_FourYawsRestore ==
    last.op = "rotateItemY" =>
        LET item == last.arg.item
        IN  /\ last.ret[4].lengthIn = item.lengthIn
            /\ last.ret[4].widthIn = item.widthIn
            /\ last.ret[4].rotationY = item.rotationY
            /\ \A k \in 1..4 :
                  /\ last.ret[k].heightIn = item.heightIn
                  /\ last.ret[k].origLengthIn = item.origLengthIn
                  /\ last.ret[k].origWidthIn = item.origWidthIn
                  /\ last.ret[k].origHeightIn = item.origHeightIn

\* an oblong item that started at yaw state 3 went through 0 and came back
C13_Witness ==
    /\ last.op = "rotateItemY"
    /\ last.arg.item.lengthIn # last.arg.item.widthIn
    /\ last.arg.item.rotationY = 3
    /\ last.ret[1].rotationY = 0
    /\ last.ret[1].lengthIn = last.arg.item.widthIn
    /\ last.ret[4] = last.arg.item

\* the summed weight of the entries of a list at the given indices
RECURSIVE WeightAt(_, _)
WeightAt(its, idx) ==
    IF idx = {} THEN 0
    ELSE LET i == CHOOSE k \in idx : TRUE
         IN  its[i].weightLbs + WeightAt(its, idx \ {i})

\* the value of a percentage pair is n percent
IsPercent(p, n) == p.part * 100 = n * p.of

\* C14: getWeightDistribution returns 50/50/50/50 for an empty list; for a
\* list of positive total weight, front holds the weight of the items whose
\* centre X is below half the container length and back the rest, left the
\* weight of those whose centre Z is below half the width and right the
\* rest, each as a share of the total, so that front + back and left + right
\* are 100 percent.
C14_WeightDistribution ==
    last.op = "getWeightDistribution" =>
        LET c == containerSpec
            its == last.pre
            front == {i \in DOMAIN its : 2 * its[i].posX + its[i].lengthIn < c.lengthIn}
            left == {i \in DOMAIN its : 2 * its[i].posZ + its[i].widthIn < c.widthIn}
            total == WeightAt(its, DOMAIN its)
            r == last.ret
        IN  /\ its = <<>> =>
                  /\ IsPercent(r.front, 50) /\ IsPercent(r.back, 50)
                  /\ IsPercent(r.left, 50) /\ IsPercent(r.right, 50)
            /\ total > 0 =>
                  /\ r.front = Percent(WeightAt(its, front), total)
                  /\ r.back = Percent(WeightAt(its, DOMAIN its \ front), total)
                  /\ r.left = Percent(WeightAt(its, left), total)
                  /\ r.right = Percent(WeightAt(its, DOMAIN its \ left), total)
                  /\ r.front.part + r.back.part = total
                  /\ r.left.part + r.right.part = total

\* a crate centred exactly on both midlines was counted in back and right,
\* next to weight in front and left
C14_Witness ==
    /\ last.op = "getWeightDistribution"
    /\ \E i \in DOMAIN last.pre :
          /\ 2 * last.pre[i].posX + last.pre[i].lengthIn = containerSpec.lengthIn
          /\ 2 * last.pre[i].posZ + last.pre[i].widthIn = containerSpec.widthIn
          /\ last.pre[i].weightLbs > 0
          /\ last.ret.back.part = last.pre[i].weightLbs
          /\ last.ret.right.part = last.pre[i].weightLbs
    /\ last.ret.front.part > 0
    /\ last.ret.left.part > 0

----------------------------------------------------------------------------
(* Load plan order *)

PlanReturned == last.op = "generateLoadPlan"

\* the step at which the item with this id is loaded
StepOf(steps, id) == CHOOSE k \in DOMAIN steps : steps[k].item.id = id

\* C15: in the returned sequence, of two items whose posY differ by more
\* than 1 inch the lower one is at the earlier step.
C15_FloorToCeiling ==
    PlanReturned =>
        \A a, b \in Range(last.pre) :
            b.posY - a.posY > PlanYTol =>
                StepOf(last.ret.steps, a.id) < StepOf(last.ret.steps, b.id)

\* C16: in the returned sequence, of two items whose posY differ by at most
\* 1 inch and whose weights differ by at most 10 lbs, the one whose posX is
\* lower by more than 1 inch is at the strictly earlier step.
C16_FrontToBack ==
    PlanReturned =>
        \A a, b \in Range(last.pre) :
            /\ Abs(a.posY - b.posY) <= PlanYTol
            /\ Abs(a.weightLbs - b.weightLbs) <= PlanWeightTol
            /\ b.posX - a.posX > PlanXTol
            => StepOf(last.ret.steps, a.id) < StepOf(last.ret.steps, b.id)

\* b rests on a: its bottom is a's top and the footprints overlap
RestsOn(b, a) ==
    /\ b.posY = a.posY + a.heightIn
    /\ b.posX < a.posX + a.lengthIn
    /\ b.posX + b.lengthIn > a.posX
    /\ b.posZ < a.posZ + a.widthIn
    /\ b.posZ + b.widthIn > a.posZ

\* C17: in the returned sequence every item comes after each item it rests
\* on.
C17_SupportersFirst ==
    PlanReturned =>
        \A a, b \in Range(last.pre) :
            RestsOn(b, a) =>
                StepOf(last.ret.steps, a.id) < StepOf(last.ret.steps, b.id)

----------------------------------------------------------------------------
(* Load plan steps *)

\* the items of steps 1..k, in step order
StepItems(steps, k) == [j \in 1..k |-> steps[j].item]

\* C18: one step per input item, the step items being a permutation of the
\* input, numbered 1..n in order; at every step the cumulative weight is
\* calculateTotalWeight, and the cumulative utilization calculateUtilization,
\* of the items of the steps so far.
C18_StepsAccumulate ==
    PlanReturned =>
        /\ Len(last.ret.steps) = Len(last.pre)
        /\ Range(StepItems(last.ret.steps, Len(last.ret.steps))) = Range(last.pre)
        /\ \A k \in DOMAIN last.ret.steps :
              /\ last.ret.steps[k].stepNumber = k
              /\ last.ret.steps[k].cumulativeWeight
                    = calculateTotalWeight(StepItems(last.ret.steps, k))
              /\ last.ret.steps[k].cumulativeUtilization
                    = calculateUtilization(StepItems(last.ret.steps, k), containerSpec)

\* a plan of three steps whose last totals are those of the whole load and
\* exceed those of its first step
C18_Witness ==
    /\ PlanReturned
    /\ Len(last.ret.steps) = 3
    /\ last.ret.steps[3].cumulativeWeight = calculateTotalWeight(last.pre)
    /\ last.ret.steps[3].cumulativeUtilization
          = calculateUtilization(last.pre, containerSpec)
    /\ last.ret.steps[1].cumulativeWeight > 0
    /\ last.ret.steps[1].cumulativeWeight < last.ret.steps[3].cumulativeWeight

\* C19: after generateLoadPlan the caller's item array has the same items in
\* the same order, each with every field as before; the steps report those
\* same items.
C19_PlanIsReadOnly ==
    PlanReturned =>
        /\ last.ret.items = last.pre
        /\ \A k \in DOMAIN last.ret.steps : last.ret.steps[k].item \in Range(last.pre)

\* a plan whose step order differs from the order of the input array
C19_Witness ==
    /\ PlanReturned
    /\ Len(last.pre) >= 2
    /\ last.ret.steps[1].item.id # last.pre[1].id
    /\ last.ret.items = last.pre

----------------------------------------------------------------------------
(* Container switch *)

\* C20: changeContainer makes the named spec the active one and leaves the
\* item list (membership, order, every field of every item) as it was, also
\* when some item does not fit the new container.
C20_ChangeContainerKeepsItems ==
    last.op = "changeContainer" =>
        /\ items = last.pre
        /\ containerSpec = CONTAINER_SPECS[last.arg.name]

\* a switch to a container that one of the items does not fit into
C20_Witness ==
    /\ last.op = "changeContainer"
    /\ items = last.pre
    /\ \E i \in DOMAIN items : ~WithinBounds(items[i], containerSpec)

----------------------------------------------------------------------------
(* Stack levels *)

\* the tops of the other items that leave the item under the ceiling
FittingTops(item, allItems, container) ==
    {TopOf(allItems[j]) : j \in
        {k \in DOMAIN allItems :
            /\ allItems[k].id # item.id
            /\ TopOf(allItems[k]) + item.heightIn <= container.heightIn + HalfInch}}

\* C24: findAllStackLevels returns a strictly ascending list whose members
\* are 0 and exactly the tops of the other items that leave the item under
\* the ceiling, whatever their horizontal position; the y of findStackingY
\* for the same arguments is one of them.
C24_StackLevels ==
    last.op = "findAllStackLevels" =>
        /\ \A i \in 1..(Len(last.ret.levels) - 1) :
              last.ret.levels[i] < last.ret.levels[i + 1]
        /\ Range(last.ret.levels)
              = {0} \cup FittingTops(last.arg.item, last.pre, containerSpec)
        /\ last.ret.y \in Range(last.ret.levels)

\* an other item to the side of the item adds a level, another one is too
\* high for the item to go on, and the item itself is in the list
C24_Witness ==
    /\ last.op = "findAllStackLevels"
    /\ Len(last.ret.levels) = 2
    /\ Len(last.pre) = 3
    /\ last.pre[1].id = last.arg.item.id
    /\ last.ret.y = 0
    /\ \E j \in DOMAIN last.pre :
          /\ TopOf(last.pre[j]) \in Range(last.ret.levels)
          /\ DepthX(last.arg.item, last.pre[j]) <= 0
    /\ \E j \in DOMAIN last.pre :
          /\ last.pre[j].id # last.arg.item.id
          /\ TopOf(last.pre[j]) \notin Range(last.ret.levels)

----------------------------------------------------------------------------
(* Auto-placement order *)

\* the scanned positions <<y, x, z>> at which the item validates with no
\* warning
CleanSpots(item, its, container, step) ==
    {p \in GridPoints(container.heightIn - item.heightIn, step)
           \X GridPoints(container.lengthIn - item.lengthIn, step)
           \X GridPoints(container.widthIn - item.widthIn, step) :
        /\ validatePlacement([item EXCEPT !.posY = p[1], !.posX = p[2], !.posZ = p[3]],
                             its, container).valid
        /\ validatePlacement([item EXCEPT !.posY = p[1], !.posX = p[2], !.posZ = p[3]],
                             its, container).warnings = <<>>}

\* lexicographic order on <<y, x, z>>
LexLeq(p, q) ==
    \/ p[1] < q[1]
    \/ p[1] = q[1] /\ p[2] < q[2]
    \/ p[1] = q[1] /\ p[2] = q[2] /\ p[3] <= q[3]

AddedSpots ==
    CleanSpots(Added, last.pre, containerSpec, IF snapEnabled THEN gridSize ELSE 100)

\* C22: when some scanned position validates with no warning, the added item
\* is at the one that is lowest in y, then in x, then in z.
C22_AutoPlaceFirstSpot ==
    (last.op = "addItem" /\ last.outcome = "added" /\ AddedSpots # {})
    => /\ <<Added.posY, Added.posX, Added.posZ>> \in AddedSpots
       /\ \A q \in AddedSpots : LexLeq(<<Added.posY, Added.posX, Added.posZ>>, q)

\* the item went to the floor further along x although a clean spot with a
\* lower x existed higher up
C22_Witness ==
    /\ last.op = "addItem" /\ last.outcome = "added"
    /\ Added.posY = 0 /\ Added.posX > 0
    /\ \E q \in AddedSpots : q[2] < Added.posX /\ q[1] > 0

----------------------------------------------------------------------------
(* Edit recovery *)

EditedIndex == IndexOf(last.pre, last.id)

\* the edited item as it is when editItem first validates it
EditedMutated ==
    EditMutate(last.pre[EditedIndex], last.pre, EditedIndex, last.arg, containerSpec,
               snapEnabled, gridSize)

\* a dimension edit whose first validation failed
EditRecovered ==
    /\ last.op = "editItem"
    /\ DimsChanged(last.arg)
    /\ ~validatePlacement(EditedMutated, Replace(last.pre, EditedIndex, EditedMutated),
                          containerSpec).valid

\* the item at a level, X and Z kept
AtLevel(item, y) == [item EXCEPT !.posY = y]

\* the members of findAllStackLevels at which the item validates
ValidLevels ==
    {y \in Range(findAllStackLevels(EditedMutated, last.pre, containerSpec)) :
        validatePlacement(AtLevel(EditedMutated, y),
                          Replace(last.pre, EditedIndex, AtLevel(EditedMutated, y)),
                          containerSpec).valid}

\* what autoPlace gives with the item taken out of the list
EditedAuto ==
    autoPlace(EditedMutated, Without(last.pre, last.id), containerSpec, snapEnabled,
              gridSize)

\* C23: a dimension edit that does not validate is first retried, X and Z
\* kept, at the levels of findAllStackLevels in ascending order and takes the
\* first that validates; only when none validates it is auto-placed with the
\* item out of the list and put back at its index; only when that does not
\* validate it is reverted and reported as failed.
C23_RecoveryLadder ==
    EditRecovered =>
        IF ValidLevels # {}
        THEN /\ last.info = "level"
             /\ items[EditedIndex].posX = EditedMutated.posX
             /\ items[EditedIndex].posZ = EditedMutated.posZ
             /\ items[EditedIndex].posY \in ValidLevels
             /\ \A y \in ValidLevels : items[EditedIndex].posY <= y
        ELSE IF validatePlacement(EditedAuto, Replace(last.pre, EditedIndex, EditedAuto),
                                  containerSpec).valid
        THEN /\ last.info = "autoPlace"
             /\ Ids(items) = Ids(last.pre)
             /\ items[EditedIndex].posX = EditedAuto.posX
             /\ items[EditedIndex].posY = EditedAuto.posY
             /\ items[EditedIndex].posZ = EditedAuto.posZ
        ELSE last.info = "revert" /\ last.outcome = "failed"

----------------------------------------------------------------------------
(* Rotation counter *)

\* the rotated item before and after the call
RotatedOld == last.pre[IndexOf(last.pre, last.id)]
RotatedNew == items[IndexOf(items, last.id)]

AcceptedRotation(type) ==
    /\ last.op = "rotateItem"
    /\ last.outcome = "accepted"
    /\ last.arg.rotationType = type

\* C25: every item's rotation counter is 0, 1, 2 or 3; an accepted yaw makes
\* it (old + 1) mod 4; an accepted forward tip keeps it and swaps height with
\* length, an accepted side tip keeps it and swaps height with width.
C25_RotationCounter ==
    /\ \A i \in DOMAIN items : items[i].rotationY \in {0, 1, 2, 3}
    /\ AcceptedRotation("y") =>
          RotatedNew.rotationY = (RotatedOld.rotationY + 1) % 4
    /\ AcceptedRotation("tipForward") =>
          /\ RotatedNew.rotationY = RotatedOld.rotationY
          /\ RotatedNew.heightIn = RotatedOld.lengthIn
          /\ RotatedNew.lengthIn = RotatedOld.heightIn
          /\ RotatedNew.widthIn = RotatedOld.widthIn
    /\ AcceptedRotation("tipSide") =>
          /\ RotatedNew.rotationY = RotatedOld.rotationY
          /\ RotatedNew.heightIn = RotatedOld.widthIn
          /\ RotatedNew.widthIn = RotatedOld.heightIn
          /\ RotatedNew.lengthIn = RotatedOld.lengthIn

\* an item that was yawed once is tipped forward, which changes its shape
C25_Witness ==
    /\ AcceptedRotation("tipForward")
    /\ RotatedOld.rotationY = 1
    /\ RotatedNew.rotationY = 1
    /\ RotatedNew.lengthIn # RotatedOld.lengthIn

----------------------------------------------------------------------------
(* Load plan tips *)

\* the footprints of two items overlap
FootprintsOverlap(a, b) ==
    /\ a.posX < b.posX + b.lengthIn
    /\ b.posX < a.posX + a.lengthIn
    /\ a.posZ < b.posZ + b.widthIn
    /\ b.posZ < a.posZ + a.widthIn

\* a fragile item of a later step goes directly on top of the item of step k
FragileGoesOnTop(steps, k) ==
    \E j \in (k + 1)..Len(steps) :
        /\ steps[j].item.category = "fragile"
        /\ Abs(TopOf(steps[k].item) - steps[j].item.posY) < PlanTopTol
        /\ FootprintsOverlap(steps[k].item, steps[j].item)

\* C26: a step carries the tip about a fragile item on top iff its item is
\* not fragile and a fragile item of a later step has its bottom within 2
\* inches of the item's top and a footprint overlapping the item's.
C26_FragileTip ==
    PlanReturned =>
        \A k \in DOMAIN last.ret.steps :
            ("fragileAbove" \in Range(last.ret.steps[k].tips))
            <=> (/\ last.ret.steps[k].item.category # "fragile"
                 /\ FragileGoesOnTop(last.ret.steps, k))

----------------------------------------------------------------------------
(* Frame of moveItem *)

MovedOld == last.pre[IndexOf(last.pre, last.id)]
MovedNew == items[IndexOf(items, last.id)]

\* C29: an accepted moveItem leaves the two coordinates of the other axes,
\* the dimensions and the rotation counter of the item as they were.
C29_MoveChangesOneAxis ==
    (last.op = "moveItem" /\ last.outcome = "accepted") =>
        /\ last.arg.axis # "x" => MovedNew.posX = MovedOld.posX
        /\ last.arg.axis # "y" => MovedNew.posY = MovedOld.posY
        /\ last.arg.axis # "z" => MovedNew.posZ = MovedOld.posZ
        /\ MovedNew.lengthIn = MovedOld.lengthIn
        /\ MovedNew.widthIn = MovedOld.widthIn
        /\ MovedNew.heightIn = MovedOld.heightIn
        /\ MovedNew.rotationY = MovedOld.rotationY

----------------------------------------------------------------------------
(* Original dimensions *)

\* the multiset of three lengths, as the count of each value
DimBag(l, w, h) ==
    [v \in {l, w, h} |-> Cardinality({k \in 1..3 : <<l, w, h>>[k] = v})]

KeepsShape(item) ==
    DimBag(item.lengthIn, item.widthIn, item.heightIn)
        = DimBag(item.origLengthIn, item.origWidthIn, item.origHeightIn)

\* C30: the current dimensions of every item are a permutation of its
\* original dimensions, and rotateItem leaves the original dimensions alone.
C30_DimsPermuteOriginal ==
    /\ \A i \in DOMAIN items : KeepsShape(items[i])
    /\ last.op = "rotateItem" =>
          /\ RotatedNew.origLengthIn = RotatedOld.origLengthIn
          /\ RotatedNew.origWidthIn = RotatedOld.origWidthIn
          /\ RotatedNew.origHeightIn = RotatedOld.origHeightIn
----------------------------------------------------------------------------
(* Drag gestures *)

\* C21: deleteItem(id) removes exactly the item with that id, the others
\* keeping their order, together with its mesh, its label and its selection;
\* and in every state, whatever events follow (a mouse-move or mouse-up that
\* finishes a drag of the item begun before the delete included), no mesh and
\* no label is registered for an id that is not in the item list.
C21_NoMeshWithoutItem ==
    /\ last.op = "deleteItem" =>
          /\ items = Without(last.pre, last.id)
          /\ last.id \notin itemMeshes
          /\ last.id \notin labelIds
          /\ selectedItemId # last.id
    /\ itemMeshes \subseteq Ids(items)
    /\ labelIds \subseteq Ids(items)
\* the mouse-up that ends a gesture begun on an item, with nothing but
\* mouse-moves since its mouse-down
PureGestureEnded ==
    /\ last.op = "mouseUp"
    /\ gesture.id # Null
    /\ last.n = gesture.n0 + gesture.events + 1

\* the item of the gesture, as it is now
GestureItem == items[IndexOf(items, gesture.id)]

AtGestureStart(item) ==
    /\ item.posX = gesture.start.x
    /\ item.posY = gesture.start.y
    /\ item.posZ = gesture.start.z

DragCleared ==
    /\ isDragging = FALSE
    /\ dragItem = Null
    /\ ghostMesh = FALSE
    /\ dragPlane = FALSE

\* C27: after the mouse-up of a gesture that no other operation interleaves,
\* the dragged item passes validatePlacement where it is or has exactly the
\* position it had at mouse-down, and the drag state is cleared (isDragging
\* false, dragItem null, no ghost mesh, no drag plane); and if the pointer
\* stayed within 5 pixels of the mouse-down point the item's position is
\* unchanged.
C27_DragEndsConsistently ==
    PureGestureEnded =>
        /\ gesture.id \in Ids(items)
        /\ \/ validatePlacement(GestureItem, items, containerSpec).valid
           \/ AtGestureStart(GestureItem)
        /\ DragCleared
        /\ ~gesture.far => AtGestureStart(GestureItem)

\* the same for the gestures whose mouse-down finds isDragging false (the
\* mouse-up of every earlier drag was delivered to the canvas)
FreshDragEndsConsistently == gesture.fresh => C27_DragEndsConsistently
\* the mouse-up that ends a gesture begun on an item, with nothing since its
\* mouse-down but mouse-moves and R or T key rotations of that item
RotatedGestureEnded ==
    /\ last.op = "mouseUp"
    /\ gesture.id # Null
    /\ last.n = gesture.n0 + gesture.events + gesture.turns + 1

\* C28: whatever way a drag gesture (mouse-down, mouse-moves, mouse-up) is
\* interleaved with key rotations of the dragged item, if at mouse-down every
\* item is within bounds and no two items overlap, then after the mouse-up
\* every item is within bounds and no two items overlap.
C28_DragWithRotationsStaysConsistent ==
    RotatedGestureEnded /\ gesture.consistent => Consistent(items, containerSpec)

=============================================================================
